---- MODULE Spec2Model ----
(***************************************************************************)
(* The synchronization layer of the job-board page object                  *)
(* (tests/pages/qa_jobs_page.py): the stale-element retry wrapper, the     *)
(* department auto-selection gate, the job-list stability detector and the *)
(* page flows that call them; with them the page facade                    *)
(* (tests/pages/base_page.py, home_page.py), the card verification of      *)
(* tests/test_qa_jobs.py, the driver fixture (tests/conftest.py) and the   *)
(* deployment script (scripts/deploy_and_run.py).                          *)
(*                                                                         *)
(* Each component keeps its state in one record whose fields carry the     *)
(* names of the source's locals.  Time is counted in seconds from the      *)
(* entry of the operation that owns the clock.                             *)
(***************************************************************************)
EXTENDS Integers, Sequences, FiniteSets, TLC

VARIABLES w,   \* retry_on_stale_element's wrapper around one operation
          d,   \* _wait_for_jobs_stable
          g,   \* _ensure_department_not_all
          f,   \* the page flow that is running
          b,   \* the BasePage / HomePage operation that is running
          j,   \* get_job_position / get_job_department / get_job_location
          ver, \* test_qa_jobs_details_verification's loop over the cards
          fix, \* the driver fixture of conftest.py over a run of tests
          orch, \* scripts/deploy_and_run.py
          mt,  \* the match loop of _wait_for_jobs_stable over one sample
          fetch, \* get_all_jobs and what its caller does with the result
          listing \* wait_for_pods_ready over the pods its listings show

vars == <<w, d, g, f, b, j, ver, fix, orch, mt, fetch, listing>>

\* Python's None, for a local that holds no value yet and for a missing argument.
None == "None"
\* None in a local that otherwise holds a count
NoCount == -1

(***************************************************************************)
(* Bounds of the model.                                                    *)
(***************************************************************************)
\* largest max_attempts handed to the decorator
MaxAttempts == 3
\* how far below zero the max_attempts handed to the decorator goes
MaxBelowZero == 1
\* largest number of StaleReference raises an operation makes before it settles
MaxStale == 4
\* largest max_stable_checks handed to the stability detector
MaxChecks == 3
\* largest number of job cards one sample of the list shows
MaxCards == 2
\* the detector's overall timeout in seconds (WAIT_TIME, 60 in the source,
\* scaled down: one poll per second makes it the number of polls)
MaxWait == 6
\* longest time in seconds one driver lookup takes to answer
MaxLatency == 1
\* largest timeout in seconds handed to the auto-selection gate besides the
\* 10 s of filter_by_location (its default, 60, scaled down)
MaxTimeout == 12

(***************************************************************************)
(* retry_on_stale_element (qa_jobs_page.py 14-36)                          *)
(***************************************************************************)
\* what the wrapped operation returns on success
Values == {"a", "b"}

\* The wrapped operation: it raises StaleReference on its first w.k
\* invocations and then settles into w.then: "ok" (returns w.result), "other"
\* (raises an error that is not StaleReference) or "stale" (keeps raising
\* StaleReference for ever).
FuncOutcome ==
    IF w.calls + 1 <= w.k THEN "stale" ELSE w.then

\* line 30 as a bug would have it: except Exception
WrapperCatchesAll(exc) == TRUE

\* line 30: except StaleElementReferenceException
WrapperCatches(exc) == exc = "stale"

\* line 31 as a bug would have it: the test one attempt late
LastAttemptLate == w.attempt = w.max_attempts

\* line 31: attempt == max_attempts - 1
LastAttempt == w.attempt = w.max_attempts - 1

\* line 29: return func(...)
ReturnedValue == w.result

WrapperIdle ==
    [max_attempts |-> 0, k |-> 0, then |-> "ok", result |-> None,
     attempt |-> 0, calls |-> 0, sleeps |-> 0,
     status |-> "idle", value |-> None, exc |-> None, excCall |-> 0]

WrapperInit ==
    \E n \in (0 - MaxBelowZero)..MaxAttempts, k \in 0..MaxStale,
       t \in {"ok", "other", "stale"}, r \in Values :
        w = [WrapperIdle EXCEPT !.max_attempts = n, !.k = k, !.then = t,
                                !.result = r, !.status = "running"]

\* One pass of the for loop (lines 27-33): invoke the operation; return its
\* value, or on StaleReference re-raise at the last attempt and otherwise
\* sleep 0.5 s and go on; any other error leaves the wrapper at once.
WrapperAttempt ==
    /\ w.status = "running"
    /\ w.attempt < w.max_attempts
    /\ LET o == FuncOutcome
           c == w.calls + 1
       IN  \/ /\ o = "ok"
              /\ w' = [w EXCEPT !.calls = c, !.status = "returned",
                                !.value = ReturnedValue]
           \/ /\ o # "ok" /\ WrapperCatches(o)
              /\ LastAttempt
              /\ w' = [w EXCEPT !.calls = c, !.status = "raised",
                                !.exc = o, !.excCall = c]
           \/ /\ o # "ok" /\ WrapperCatches(o)
              /\ ~LastAttempt
              /\ w' = [w EXCEPT !.calls = c, !.sleeps = @ + 1,
                                !.attempt = @ + 1]
           \/ /\ o # "ok" /\ ~WrapperCatches(o)
              /\ w' = [w EXCEPT !.calls = c, !.status = "raised",
                                !.exc = o, !.excCall = c]
    /\ UNCHANGED <<d, g, f, b, j, ver, fix, orch, mt, fetch, listing>>

\* The for loop ends without a return or a raise (line 34): return None.
WrapperFallThrough ==
    /\ w.status = "running"
    /\ w.attempt >= w.max_attempts
    /\ w' = [w EXCEPT !.status = "returned", !.value = None]
    /\ UNCHANGED <<d, g, f, b, j, ver, fix, orch, mt, fetch, listing>>

DetectorIdle == [status |-> "idle"]
GateIdle == [status |-> "idle"]
FlowIdle == [status |-> "idle"]
FacadeIdle == [status |-> "idle"]
GetterIdle == [status |-> "idle"]
VerifyIdle == [status |-> "idle"]
FixtureIdle == [status |-> "idle"]
ScriptIdle == [status |-> "idle"]
MatchIdle == [status |-> "idle"]
FetchIdle == [status |-> "idle"]
ListingIdle == [status |-> "idle"]
RestIdle ==
    /\ ver = VerifyIdle /\ fix = FixtureIdle /\ orch = ScriptIdle
    /\ mt = MatchIdle /\ fetch = FetchIdle /\ listing = ListingIdle
\* the components that no specification below sets running
OthersIdle == b = FacadeIdle /\ j = GetterIdle /\ RestIdle

InitRetry == WrapperInit /\ d = DetectorIdle /\ g = GateIdle /\ f = FlowIdle /\ OthersIdle
NextRetry == WrapperAttempt \/ WrapperFallThrough
SpecRetry == InitRetry /\ [][NextRetry]_vars

(***************************************************************************)
(* Texts and job cards                                                     *)
(***************************************************************************)
\* Python's `sub in text` for strings
Contains(sub, text) ==
    \E i \in 1..(Len(text) - Len(sub) + 1) :
        SubSeq(text, i, i + Len(sub) - 1) = sub

\* a card attribute whose read raises (the card went stale, the node is missing)
Raises == "<raises>"

\* A job card as the driver shows it: the texts of its .position-department
\* and .position-location nodes.
Cards ==
    { [department |-> "Quality Assurance", location |-> "Istanbul, Turkiye"],
      [department |-> "Sales", location |-> "Ankara, Turkiye"],
      [department |-> Raises, location |-> Raises] }

SeqsUpTo(S, n) == UNION { [1..k -> S] : k \in 0..n }

\* what driver.find_elements(*JOB_ITEMS) can answer at one polling instant
Samples == SeqsUpTo(Cards, MaxCards)

(***************************************************************************)
(* _wait_for_jobs_stable (qa_jobs_page.py 299-378)                         *)
(***************************************************************************)
\* line 321: not expected_department and not expected_location
NoCriteria == d.expected_department = None /\ d.expected_location = None

\* lines 341-356 as a bug would have them: the location tested as a
\* substring, like the department
CardMatchesLocationInside(job) ==
    LET department == IF d.expected_department # None
                      THEN job.department ELSE None
        location == IF d.expected_location # None
                    THEN job.location ELSE None
    IN  IF department = Raises \/ location = Raises
        THEN FALSE
        ELSE /\ (d.expected_department = None
                   \/ Contains(d.expected_department, department))
             /\ (d.expected_location = None
                   \/ Contains(d.expected_location, location))

\* lines 341-356 for one card: the reads the criteria ask for, then the match
\* test; a read that raises is caught (line 355) and the card is passed over.
CardMatches(job) ==
    LET department == IF d.expected_department # None
                      THEN job.department ELSE None
        location == IF d.expected_location # None
                    THEN job.location ELSE None
    IN  IF department = Raises \/ location = Raises
        THEN FALSE
        ELSE /\ (d.expected_department = None
                   \/ Contains(d.expected_department, department))
             /\ (d.expected_location = None
                   \/ d.expected_location = location)

\* lines 337-356: the loop over the sample's cards, left at the first match
RECURSIVE MatchLoop(_, _)
MatchLoop(jobs, i) ==
    IF i > Len(jobs) THEN FALSE
    ELSE IF CardMatches(jobs[i]) THEN TRUE
    ELSE MatchLoop(jobs, i + 1)

\* line 366 as a bug would have it: the no-criteria test copied over
SameCountCriteriaPositive(job_count) ==
    job_count = d.stable_count /\ job_count > 0

\* line 366: job_count == stable_count
SameCountCriteria(job_count) == job_count = d.stable_count

\* line 326: job_count == stable_count and job_count > 0
SameCountNoCriteria(job_count) ==
    job_count = d.stable_count /\ job_count > 0

\* lines 328-330 and 368-370 as a bug would have them: a changed cardinality
\* is taken over but the counter goes on counting
TrackNoReset(job_count) ==
    IF d.stable_count = NoCount
    THEN [stable_count |-> job_count, stable_checks |-> 1]
    ELSE [stable_count |-> job_count, stable_checks |-> d.stable_checks + 1]

\* lines 323-330 and 363-370: the new (stable_count, stable_checks)
Track(job_count) ==
    IF d.stable_count = NoCount
    THEN [stable_count |-> job_count, stable_checks |-> 1]
    ELSE IF (IF NoCriteria THEN SameCountNoCriteria(job_count)
                           ELSE SameCountCriteria(job_count))
    THEN [stable_count |-> d.stable_count, stable_checks |-> d.stable_checks + 1]
    ELSE [stable_count |-> job_count, stable_checks |-> 1]

\* line 373 as a bug would have it: stable is enough, matching forgotten
ExitOnStableOnly(matches, stable_checks) ==
    stable_checks >= d.max_stable_checks

\* line 373 as a bug would have it: one check short of the threshold
ExitOneCheckEarly(matches, stable_checks) ==
    IF NoCriteria
    THEN stable_checks >= d.max_stable_checks - 1
    ELSE matches /\ stable_checks >= d.max_stable_checks - 1

\* lines 333 and 373: the test that leaves the loop with True
ExitTest(matches, stable_checks) ==
    IF NoCriteria
    THEN stable_checks >= d.max_stable_checks
    ELSE matches /\ stable_checks >= d.max_stable_checks

\* The sample as an observer of the page sees it, apart from the detector's
\* own loop: its cardinality and whether some card of it, read in full,
\* satisfies the criteria.
Observed(jobs) ==
    [n |-> Len(jobs),
     m |-> \E i \in 1..Len(jobs) :
              /\ (d.expected_department = None
                    \/ (/\ jobs[i].department # Raises
                        /\ Contains(d.expected_department, jobs[i].department)))
              /\ (d.expected_location = None
                    \/ (/\ jobs[i].location # Raises
                        /\ jobs[i].location = d.expected_location))]

\* the last max_stable_checks observations, oldest first
Remember(hist, o) ==
    LET h == Append(hist, o)
    IN  IF Len(h) > d.max_stable_checks THEN Tail(h) ELSE h

\* whether every sample so far differs in cardinality from the one before it
Changing(job_count) ==
    /\ d.changing
    /\ (d.samples = 0 \/ d.hist[Len(d.hist)].n # job_count)

\* The detector at entry (lines 312-314).  samples, hist, tested and changing
\* record what was sampled and when, for the properties; the code keeps none
\* of them.
DetectorEntry(dep, loc, checks) ==
    [expected_department |-> dep, expected_location |-> loc,
     max_stable_checks |-> checks,
     now |-> 0, timeout |-> MaxWait,
     stable_count |-> NoCount, stable_checks |-> 0,
     status |-> "running", result |-> None,
     samples |-> 0, hist |-> <<>>, tested |-> 0, changing |-> TRUE]

DetectorInit ==
    \E dep \in {None, "Quality Assurance"},
       loc \in {None, "Istanbul, Turkiye"},
       checks \in 1..MaxChecks :
        d = DetectorEntry(dep, loc, checks)

\* line 316 as a bug would have it: time.time() <= timeout
ExpiredLate == d.now > d.timeout

\* line 316: the loop test fails once time.time() >= timeout
Expired == d.now >= d.timeout

\* One pass of the while loop (lines 316-376): sample the cards, track the
\* stability counter, leave with True or sleep one second.
DetectorPoll ==
    /\ d.status = "running"
    /\ ~Expired
    /\ \E jobs \in Samples, lat \in 0..MaxLatency :
         LET job_count == Len(jobs)
             matches == IF NoCriteria THEN FALSE ELSE MatchLoop(jobs, 1)
             t == Track(job_count)
             seen == [d EXCEPT !.stable_count = t.stable_count,
                               !.stable_checks = t.stable_checks,
                               !.samples = @ + 1,
                               !.hist = Remember(@, Observed(jobs)),
                               !.tested = d.now,
                               !.changing = Changing(job_count)]
         IN  IF ExitTest(matches, t.stable_checks)
             THEN d' = [seen EXCEPT !.now = @ + lat, !.status = "returned",
                                    !.result = "True"]
             ELSE d' = [seen EXCEPT !.now = @ + lat + 1]
    /\ UNCHANGED <<w, g, f, b, j, ver, fix, orch, mt, fetch, listing>>

\* The loop test fails (line 316): return False (line 378).
DetectorTimeout ==
    /\ d.status = "running"
    /\ Expired
    /\ d' = [d EXCEPT !.status = "returned", !.result = "False"]
    /\ UNCHANGED <<w, g, f, b, j, ver, fix, orch, mt, fetch, listing>>

InitStable == DetectorInit /\ w = WrapperIdle /\ g = GateIdle /\ f = FlowIdle /\ OthersIdle
NextStable == DetectorPoll \/ DetectorTimeout
SpecStable == InitStable /\ [][NextStable]_vars

(***************************************************************************)
(* _ensure_department_not_all (qa_jobs_page.py 232-297)                    *)
(***************************************************************************)
\* line 252: max_element_failures
max_element_failures == 10
\* line 120: the timeout filter_by_location hands to the gate
ShortTimeout == 10

Whitespace == {" ", "\n", "\t"}

\* Python's str.strip()
RECURSIVE LStrip(_)
LStrip(text) ==
    IF Len(text) > 0 /\ SubSeq(text, 1, 1) \in Whitespace
    THEN LStrip(SubSeq(text, 2, Len(text)))
    ELSE text
RECURSIVE RStrip(_)
RStrip(text) ==
    IF Len(text) > 0 /\ SubSeq(text, Len(text), Len(text)) \in Whitespace
    THEN RStrip(SubSeq(text, 1, Len(text) - 1))
    ELSE text
Strip(text) == RStrip(LStrip(text))

\* What the department control can show when it is read ("x" stands for the
\* control's clear mark); Raises is a lookup or a read that fails.
Texts == {"", " ", "x All", "x\nAll ", "Quality Assurance"}
Readings == Texts \cup {Raises}

\* line 271 as a bug would have it: the sentinel compared, not searched for
DepartmentReadyEquality(department_text) ==
    department_text # "" /\ department_text # "All"

\* line 271: department_text and "All" not in department_text
DepartmentReady(department_text) ==
    department_text # "" /\ ~Contains("All", department_text)

\* line 263 as a bug would have it: the counter is never reset
FailuresKept == g.consecutive_element_failures

\* line 263: consecutive_element_failures = 0
FailuresAfterRead == 0

\* line 264 as a bug would have it: only the first text read is kept
LastTextFirstOnly(department_text) ==
    IF g.last_department_text = None
    THEN department_text
    ELSE g.last_department_text

\* line 264: last_department_text = department_text
LastText(department_text) == department_text

\* the last three readings, oldest first
RememberReading(obs, r) ==
    LET o == Append(obs, r)
    IN  IF Len(o) > 3 THEN Tail(o) ELSE o

\* The gate at entry (lines 248-252), start_time being 0.  polls, sleeps,
\* obs and seen (the text, as read, of the last read that succeeded) record
\* what was read and how often the gate slept, for the properties; the code
\* keeps none of them.
GateEntry(timeout) ==
    [timeout |-> timeout, now |-> 0, max_wait |-> 0 + timeout,
     last_department_text |-> None, consecutive_element_failures |-> 0,
     status |-> "running", result |-> None, error |-> None, reported |-> None,
     polls |-> 0, sleeps |-> 0, obs |-> <<>>, seen |-> None]

GateInit == \E timeout \in {ShortTimeout, MaxTimeout} : g = GateEntry(timeout)

\* line 256 as a bug would have it: time.time() - start_time <= max_wait
GateExpiredLate == g.now > g.max_wait

\* line 256: the loop test fails once time.time() - start_time >= max_wait
GateExpired == g.now >= g.max_wait

\* One pass of the while loop (lines 256-291): read the control's text; on a
\* read that succeeds reset the failure counter, remember the text and
\* either return True or sleep one second; on a read that fails count it
\* and either raise at max_element_failures or sleep one second.
GatePoll ==
    /\ g.status = "running"
    /\ ~GateExpired
    /\ \E r \in Readings, lat \in 0..MaxLatency :
         LET read == [g EXCEPT !.polls = @ + 1,
                               !.obs = RememberReading(@, r),
                               !.now = @ + lat]
         IN  IF r # Raises
             THEN LET department_text == Strip(r)
                      ok == [read EXCEPT
                               !.consecutive_element_failures = FailuresAfterRead,
                               !.last_department_text = LastText(department_text),
                               !.seen = r]
                  IN  IF DepartmentReady(department_text)
                      THEN g' = [ok EXCEPT !.status = "returned",
                                           !.result = "True"]
                      ELSE g' = [ok EXCEPT !.now = @ + 1, !.sleeps = @ + 1]
             ELSE LET failed == [read EXCEPT
                                   !.consecutive_element_failures = @ + 1]
                  IN  IF failed.consecutive_element_failures >= max_element_failures
                      THEN g' = [failed EXCEPT !.status = "raised",
                                               !.error = "lookup"]
                      ELSE g' = [failed EXCEPT !.now = @ + 1, !.sleeps = @ + 1]
    /\ UNCHANGED <<w, d, f, b, j, ver, fix, orch, mt, fetch, listing>>

\* The loop test fails (line 256): raise, reporting last_department_text
\* (lines 294-297).
GateTimeout ==
    /\ g.status = "running"
    /\ GateExpired
    /\ g' = [g EXCEPT !.status = "raised", !.error = "timeout",
                      !.reported = g.last_department_text]
    /\ UNCHANGED <<w, d, f, b, j, ver, fix, orch, mt, fetch, listing>>

InitGate == GateInit /\ w = WrapperIdle /\ d = DetectorIdle /\ f = FlowIdle /\ OthersIdle
NextGate == GatePoll \/ GateTimeout
SpecGate == InitGate /\ [][NextGate]_vars

(***************************************************************************)
(* The page flows (qa_jobs_page.py 75-230 and 481-516)                     *)
(***************************************************************************)
\* line 107: max_stable_checks of click_see_all_qa_jobs
SeeAllChecks == 6
\* line 299: the default max_stable_checks, which filter_by_location takes
DefaultChecks == 3
\* line 230: max_stable_checks of filter_by_department
DepartmentChecks == 2
\* line 491: max_stable_checks of click_view_role_on_first_job
ViewRoleChecks == 3
\* line 496: max_attempts of click_view_role_on_first_job
ViewRoleAttempts == 3

\* A step of a flow: a driver interaction that succeeds, leaving its events
\* in the trace, or raises; a sleep; a call of the gate; a call of the
\* detector; the click loop of click_view_role_on_first_job.
Driver(events) == [kind |-> "driver", events |-> events]
Sleep(seconds) == [kind |-> "sleep", seconds |-> seconds]
Gate(timeout) == [kind |-> "gate", timeout |-> timeout]
Detector(dep, loc, checks) ==
    [kind |-> "detector", dep |-> dep, loc |-> loc, checks |-> checks]
ClickLoop == [kind |-> "click_loop"]

\* lines 77-107 as a bug would have them: the list is waited for before the
\* department's auto-selection
click_see_all_qa_jobs_list_first ==
    << Driver(<<"see_all_found">>),
       Driver(<<"see_all_clicked">>),
       Driver(<<"url_changed">>),
       Driver(<<"list_container_present">>),
       Driver(<<"filter_section_found">>),
       Driver(<<"scrolled_to_filter">>),
       Driver(<<"department_visible">>),
       Sleep(2),
       Detector(None, None, SeeAllChecks),
       Gate(MaxWait) >>

\* lines 77-107; the gate's timeout is WAIT_TIME
click_see_all_qa_jobs ==
    << Driver(<<"see_all_found">>),
       Driver(<<"see_all_clicked">>),
       Driver(<<"url_changed">>),
       Driver(<<"list_container_present">>),
       Driver(<<"filter_section_found">>),
       Driver(<<"scrolled_to_filter">>),
       Driver(<<"department_visible">>),
       Sleep(2),
       Gate(MaxWait),
       Detector(None, None, SeeAllChecks) >>

\* lines 120-178, with the arguments the scenarios pass
filter_by_location ==
    << Gate(ShortTimeout),
       Driver(<<"display_visible">>),
       Driver(<<"display_clickable">>),
       Driver(<<"display_clicked">>),
       Driver(<<"panel_visible">>),
       Driver(<<"options_present">>),
       Driver(<<"options_visible">>),
       Driver(<<"option_located">>),
       Driver(<<"option_clickable">>),
       Driver(<<"offset_read">>),
       Driver(<<"scroll_set">>),
       Driver(<<"mousedown", "mouseup", "click">>),
       Driver(<<"cards_present">>),
       Driver(<<"card_clickable">>),
       Detector("Quality Assurance", "Istanbul, Turkiye", DefaultChecks) >>

\* lines 187-230 as a bug would have them: no wait for the job cards
filter_by_department_no_card_waits ==
    << Driver(<<"display_clicked">>),
       Driver(<<"panel_visible">>),
       Driver(<<"options_present">>),
       Driver(<<"option_located">>),
       Driver(<<"offset_read">>),
       Driver(<<"scroll_set">>),
       Driver(<<"mousedown", "mouseup", "click">>),
       Detector("Quality Assurance", None, DepartmentChecks) >>

\* lines 187-230, with the argument the scenarios pass
filter_by_department ==
    << Driver(<<"display_clicked">>),
       Driver(<<"panel_visible">>),
       Driver(<<"options_present">>),
       Driver(<<"option_located">>),
       Driver(<<"offset_read">>),
       Driver(<<"scroll_set">>),
       Driver(<<"mousedown", "mouseup", "click">>),
       Driver(<<"cards_present">>),
       Driver(<<"card_clickable">>),
       Detector("Quality Assurance", None, DepartmentChecks) >>

\* lines 491-516
click_view_role_on_first_job ==
    << Detector(None, None, ViewRoleChecks), ClickLoop >>

Operations ==
    {"click_see_all_qa_jobs", "filter_by_location", "filter_by_department",
     "click_view_role_on_first_job"}

Steps(op) ==
    CASE op = "click_see_all_qa_jobs" -> click_see_all_qa_jobs
      [] op = "filter_by_location" -> filter_by_location
      [] op = "filter_by_department" -> filter_by_department
      [] op = "click_view_role_on_first_job" -> click_view_role_on_first_job

\* The flow at entry.  stable is what the flow's last call of the detector
\* returned; fetches counts the card collections get_all_jobs handed over,
\* clicks the View Role clicks issued and sleeps the one-second sleeps of
\* the click loop.
FlowEntry(op) ==
    [op |-> op, pc |-> 1, status |-> "running", exc |-> None,
     trace |-> <<>>, stable |-> None, attempt |-> 0, fetches |-> 0,
     clicks |-> 0, sleeps |-> 0]

FlowInit == \E op \in Operations : f = FlowEntry(op)

FlowAt(kind) ==
    /\ f.status = "running"
    /\ f.pc <= Len(Steps(f.op))
    /\ Steps(f.op)[f.pc].kind = kind

\* A driver interaction as a bug would have it: a failure is passed over and
\* the flow goes on with the next step.
FlowDriverPassesOver ==
    /\ FlowAt("driver")
    /\ g.status = "idle" /\ d.status = "idle"
    /\ \/ f' = [f EXCEPT !.trace = @ \o Steps(f.op)[f.pc].events, !.pc = @ + 1]
       \/ f' = [f EXCEPT !.pc = @ + 1]
    /\ UNCHANGED <<w, d, g, b, j, ver, fix, orch, mt, fetch, listing>>

\* A driver interaction as a bug would have it: the first failure starts the
\* operation again from its first step, the second one raises.
FlowDriverStartsAgain ==
    /\ FlowAt("driver")
    /\ g.status = "idle" /\ d.status = "idle"
    /\ \/ f' = [f EXCEPT !.trace = @ \o Steps(f.op)[f.pc].events, !.pc = @ + 1]
       \/ /\ f.attempt = 0
          /\ f' = [f EXCEPT !.pc = 1, !.attempt = 1]
       \/ /\ f.attempt > 0
          /\ f' = [f EXCEPT !.status = "raised", !.exc = "driver"]
    /\ UNCHANGED <<w, d, g, b, j, ver, fix, orch, mt, fetch, listing>>

\* A driver interaction: it succeeds, or it raises and the error leaves the
\* flow (no handler surrounds it).
FlowDriver ==
    /\ FlowAt("driver")
    /\ g.status = "idle" /\ d.status = "idle"
    /\ \/ f' = [f EXCEPT !.trace = @ \o Steps(f.op)[f.pc].events, !.pc = @ + 1]
       \/ f' = [f EXCEPT !.status = "raised", !.exc = "driver"]
    /\ UNCHANGED <<w, d, g, b, j, ver, fix, orch, mt, fetch, listing>>

\* time.sleep
FlowSleep ==
    /\ FlowAt("sleep")
    /\ f' = [f EXCEPT !.pc = @ + 1]
    /\ UNCHANGED <<w, d, g, b, j, ver, fix, orch, mt, fetch, listing>>

\* self._ensure_department_not_all(timeout=...) is entered
FlowCallGate ==
    /\ FlowAt("gate")
    /\ g.status = "idle"
    /\ g' = GateEntry(Steps(f.op)[f.pc].timeout)
    /\ UNCHANGED <<w, d, f, b, j, ver, fix, orch, mt, fetch, listing>>

\* The gate is left: its True goes on to the next step, its error leaves
\* the flow.
FlowGateDone ==
    /\ FlowAt("gate")
    /\ \/ /\ g.status = "returned"
          /\ f' = [f EXCEPT !.trace = Append(@, "gate_passed"), !.pc = @ + 1]
       \/ /\ g.status = "raised"
          /\ f' = [f EXCEPT !.status = "raised", !.exc = "gate"]
    /\ g' = GateIdle
    /\ UNCHANGED <<w, d, b, j, ver, fix, orch, mt, fetch, listing>>

\* self._wait_for_jobs_stable(...) is entered
FlowCallDetector ==
    /\ FlowAt("detector")
    /\ d.status = "idle"
    /\ LET step == Steps(f.op)[f.pc]
       IN  d' = DetectorEntry(step.dep, step.loc, step.checks)
    /\ UNCHANGED <<w, g, f, b, j, ver, fix, orch, mt, fetch, listing>>

\* The detector is left (lines 107, 175-178, 230, 491): the call is a bare
\* statement, so what it returned is dropped and the flow goes on.
FlowDetectorDone ==
    /\ FlowAt("detector")
    /\ d.status = "returned"
    /\ f' = [f EXCEPT !.stable = d.result, !.pc = @ + 1]
    /\ d' = DetectorIdle
    /\ UNCHANGED <<w, g, b, j, ver, fix, orch, mt, fetch, listing>>

\* line 510 as a bug would have it: attempt < max_attempts
ViewRoleRetriesAlways(attempt) == attempt < ViewRoleAttempts

\* line 510: attempt < max_attempts - 1
ViewRoleRetries(attempt) == attempt < ViewRoleAttempts - 1

\* One pass of the for loop of click_view_role_on_first_job (lines 497-516):
\* get_all_jobs answers with cards or raises its timeout; the first card is
\* scrolled to, its View Role link looked up and clicked.  A StaleReference
\* on the way is retried after one second and re-raised at the last
\* attempt; any other error leaves the flow.
FlowClickAttempt ==
    /\ FlowAt("click_loop")
    /\ f.attempt < ViewRoleAttempts
    /\ \/ f' = [f EXCEPT !.status = "raised", !.exc = "driver"]
       \/ f' = [f EXCEPT !.fetches = @ + 1, !.status = "raised",
                         !.exc = "driver"]
       \/ /\ ViewRoleRetries(f.attempt)
          /\ f' = [f EXCEPT !.fetches = @ + 1, !.attempt = @ + 1,
                            !.sleeps = @ + 1]
       \/ /\ ~ViewRoleRetries(f.attempt)
          /\ f' = [f EXCEPT !.fetches = @ + 1, !.status = "raised",
                            !.exc = "stale"]
       \/ f' = [f EXCEPT !.fetches = @ + 1, !.clicks = @ + 1,
                         !.trace = Append(@, "view_role_clicked"),
                         !.status = "returned"]
    /\ UNCHANGED <<w, d, g, b, j, ver, fix, orch, mt, fetch, listing>>

\* The last statement of the operation is done: it returns None.
FlowReturn ==
    /\ f.status = "running"
    /\ f.pc > Len(Steps(f.op))
    /\ f' = [f EXCEPT !.status = "returned"]
    /\ UNCHANGED <<w, d, g, b, j, ver, fix, orch, mt, fetch, listing>>

InitFlow == FlowInit /\ w = WrapperIdle /\ d = DetectorIdle /\ g = GateIdle /\ OthersIdle
NextFlow ==
    \/ FlowDriver
    \/ FlowSleep
    \/ FlowCallGate
    \/ GatePoll
    \/ GateTimeout
    \/ FlowGateDone
    \/ FlowCallDetector
    \/ DetectorPoll
    \/ DetectorTimeout
    \/ FlowDetectorDone
    \/ FlowClickAttempt
    \/ FlowReturn
SpecFlow == InitFlow /\ [][NextFlow]_vars

(***************************************************************************)
(* Either poll loop on its own: the gate with a timeout of its own, or the *)
(* detector with timeout WAIT_TIME.                                        *)
(***************************************************************************)
InitPoll ==
    /\ \/ GateInit /\ d = DetectorIdle
       \/ DetectorInit /\ g = GateIdle
    /\ w = WrapperIdle /\ f = FlowIdle /\ OthersIdle

NextPoll == GatePoll \/ GateTimeout \/ DetectorPoll \/ DetectorTimeout

SpecPoll == InitPoll /\ [][NextPoll]_vars

(***************************************************************************)
(* The operations built on WebDriverWait.until: BasePage.find_element,     *)
(* find_elements, click and is_displayed (base_page.py), HomePage.open     *)
(* (home_page.py) and QAJobsPage.is_redirected_to_lever.                   *)
(*                                                                         *)
(* until polls its condition, at least once, until the condition is met or *)
(* the timeout has passed, when it raises TimeoutException; a              *)
(* NoSuchElementException inside the condition counts as "not met", any    *)
(* other error of the driver leaves until as it is.  Timeouts are counted  *)
(* in polls.                                                               *)
(***************************************************************************)
MaxPolls == 3

PageOperations ==
    {"find_element", "find_elements", "click", "is_displayed", "open",
     "is_redirected_to_lever"}

\* what one poll of a condition can find: the element's state, or the
\* current url, or a driver that raises
Observable(cond) ==
    IF cond = "url_has_lever"
    THEN {"insider", "lever", "broken"}
    ELSE {"absent", "present", "visible", "clickable", "broken"}

\* the expected conditions the operations wait for
Met(cond, o) ==
    CASE cond = "present" -> o \in {"present", "visible", "clickable"}
      [] cond = "all_present" -> o \in {"present", "visible", "clickable"}
      [] cond = "visible" -> o \in {"visible", "clickable"}
      [] cond = "clickable" -> o = "clickable"
      [] cond = "url_has_lever" -> o = "lever"

FirstCondition(op) ==
    CASE op = "find_element" -> "present"
      [] op = "find_elements" -> "all_present"
      [] op = "click" -> "clickable"
      [] op = "is_displayed" -> "visible"
      [] op = "open" -> "visible"
      [] op = "is_redirected_to_lever" -> "url_has_lever"

\* The operation at entry.  failure (the first error the driver or until
\* raised inside the operation), site (the phase it arose in), met (the
\* awaited condition was observed met), shown (element.is_displayed()
\* answered True) and clicks are kept for the properties only.
PageEntry(op, timeout) ==
    [op |-> op, timeout |-> timeout, polls |-> 0,
     phase |-> IF op = "open" THEN "navigate" ELSE "wait",
     cond |-> FirstCondition(op),
     status |-> "running", value |-> None, exc |-> None, locator |-> FALSE,
     failure |-> None, site |-> None, met |-> FALSE, shown |-> FALSE,
     clicks |-> 0]

PageInit == \E op \in PageOperations, timeout \in 1..MaxPolls : b = PageEntry(op, timeout)

Return(x, value) == [x EXCEPT !.status = "returned", !.value = value]

Raise(x, e, locator) == [x EXCEPT !.status = "raised", !.exc = e, !.locator = locator]

\* base_page.py line 110 as a bug would have it: only NoSuchElementException
IsDisplayedCatchesNotFoundOnly(e) == e = "NoSuchElementException"

\* base_page.py line 110: except (TimeoutException, NoSuchElementException)
IsDisplayedCatches(e) == e \in {"TimeoutException", "NoSuchElementException"}

\* The error e arises in the running operation: what the operation's own
\* handler, if it has one, makes of it.
Failed(e) ==
    LET x == [b EXCEPT !.failure = e, !.site = b.phase] IN
    CASE b.op = "find_element" ->
            \* base_page.py lines 40-41
            IF e = "TimeoutException"
            THEN Raise(x, "NoSuchElementException", TRUE)
            ELSE Raise(x, e, FALSE)
      [] b.op \in {"find_elements", "click"} ->
            \* base_page.py lines 54-55, 65-67: no handler
            Raise(x, e, FALSE)
      [] b.op = "is_displayed" ->
            \* base_page.py lines 110-111
            IF IsDisplayedCatches(e) THEN Return(x, "False") ELSE Raise(x, e, FALSE)
      [] b.op = "open" ->
            \* home_page.py lines 26-30: is_displayed's False skips the
            \* click, and the bare except passes over everything else
            Return(x, None)
      [] b.op = "is_redirected_to_lever" ->
            \* qa_jobs_page.py lines 531-532: bare except, return False
            Return(x, "False")

\* home_page.py line 24: navigate_to, outside the try
PageNavigate ==
    /\ b.status = "running" /\ b.phase = "navigate"
    /\ \/ b' = [b EXCEPT !.phase = "wait"]
       \/ b' = Raise([b EXCEPT !.failure = "WebDriverException", !.site = b.phase],
                     "WebDriverException", FALSE)
    /\ UNCHANGED <<w, d, g, f, j, ver, fix, orch, mt, fetch, listing>>

\* the condition of the running wait is met: what the operation does next
WaitMet ==
    LET x == [b EXCEPT !.met = TRUE] IN
    CASE b.op = "find_element" -> Return(x, "element")
      [] b.op = "find_elements" -> Return(x, "elements")
      [] b.op = "click" -> [x EXCEPT !.phase = "press"]
      [] b.op = "is_displayed" -> [x EXCEPT !.phase = "read"]
      [] b.op = "open" ->
            IF b.cond = "visible"
            THEN [x EXCEPT !.phase = "read"]
            ELSE [x EXCEPT !.phase = "press"]
      [] b.op = "is_redirected_to_lever" -> Return(x, "True")

\* One poll of WebDriverWait.until.
PagePoll ==
    /\ b.status = "running" /\ b.phase = "wait"
    /\ \E o \in Observable(b.cond) :
         IF o = "broken"
         THEN b' = Failed("WebDriverException")
         ELSE IF Met(b.cond, o)
         THEN b' = WaitMet
         ELSE IF b.polls + 1 < b.timeout
         THEN b' = [b EXCEPT !.polls = @ + 1]
         ELSE b' = [Failed("TimeoutException") EXCEPT !.polls = @ + 1]
    /\ UNCHANGED <<w, d, g, f, j, ver, fix, orch, mt, fetch, listing>>

\* home_page.py line 27 as a bug would have it: the click whatever
\* is_displayed answered
BannerShownOrNot(r) == TRUE

\* home_page.py line 27: if self.is_displayed(self.ACCEPT_COOKIES, timeout=5)
BannerShown(r) == r = "True"

\* base_page.py line 109: element.is_displayed() on the element the wait
\* handed over; in open (home_page.py lines 27-28) True goes on to click.
PageRead ==
    /\ b.status = "running" /\ b.phase = "read"
    /\ \E r \in {"True", "False", "stale"} :
         IF r = "stale"
         THEN b' = Failed("StaleElementReferenceException")
         ELSE LET x == [b EXCEPT !.shown = (r = "True")] IN
              IF b.op = "is_displayed"
              THEN b' = Return(x, r)
              ELSE IF BannerShown(r)
              THEN b' = [x EXCEPT !.phase = "wait", !.cond = "clickable",
                                  !.polls = 0, !.met = FALSE]
              ELSE b' = Return(x, None)
    /\ UNCHANGED <<w, d, g, f, j, ver, fix, orch, mt, fetch, listing>>

\* base_page.py line 67: element.click()
PagePress ==
    /\ b.status = "running" /\ b.phase = "press"
    /\ \/ b' = Return([b EXCEPT !.clicks = @ + 1], None)
       \/ b' = Failed("ElementClickInterceptedException")
    /\ UNCHANGED <<w, d, g, f, j, ver, fix, orch, mt, fetch, listing>>

InitPage ==
    /\ PageInit
    /\ w = WrapperIdle /\ d = DetectorIdle /\ g = GateIdle /\ f = FlowIdle
    /\ j = GetterIdle /\ RestIdle

NextPage == PageNavigate \/ PagePoll \/ PageRead \/ PagePress

SpecPage == InitPage /\ [][NextPage]_vars

(***************************************************************************)
(* get_job_position, get_job_department, get_job_location (qa_jobs_page.py *)
(* 391-449), each under retry_on_stale_element(max_attempts=3)             *)
(***************************************************************************)
\* lines 391, 411, 431: max_attempts of the three getters
GetterAttempts == 3

Attributes == {"position", "department", "location"}

\* a job card with the texts of its three nodes
JobCards ==
    { [position |-> "Quality Assurance Engineer",
       department |-> "Quality Assurance",
       location |-> "Istanbul, Turkiye"],
      [position |-> "Account Executive", department |-> "Sales",
       location |-> "Ankara, Turkiye"] }

\* what get_all_jobs hands over when it returns (lines 388-389): the wait
\* and find_elements both need at least one card present
Collections == SeqsUpTo(JobCards, MaxCards) \ {<<>>}

\* The getter at entry: attr says which getter it is, index is the place
\* the requested card had in the collection it was taken from, own the text
\* its node shows when the read succeeds.  jobs (the collection the last
\* fallback fetched), fell_back (the value returned came from the fallback)
\* calls and fallback_stale (the fallback reads that raised StaleReference)
\* are kept for the properties only.
GetterEntry(attr, index, own) ==
    [attr |-> attr, index |-> index, own |-> own,
     max_attempts |-> GetterAttempts, attempt |-> 0, calls |-> 0,
     status |-> "running", value |-> None, exc |-> None,
     jobs |-> <<>>, fell_back |-> FALSE, fallback_stale |-> 0]

GetterInit ==
    \E attr \in Attributes, index \in 1..MaxCards, c \in JobCards :
        j = GetterEntry(attr, index, c[attr])

\* lines 405, 425, 445 as a bug would have them: the card at the requested
\* card's place (the last one if the collection is shorter)
FallbackSamePlace(jobs) ==
    jobs[IF j.index <= Len(jobs) THEN j.index ELSE Len(jobs)]

\* lines 405, 425, 445: jobs[0]
FallbackCard(jobs) == jobs[1]

\* lines 401, 421, 441 as a bug would have them: no handler in the getter
HandlerCatchesNothing(exc) == FALSE

\* lines 401, 421, 441: except StaleElementReferenceException
HandlerCatches(exc) == exc = "stale"

\* line 31 for the getter's wrapper: attempt == max_attempts - 1
GetterLastAttempt == j.attempt = j.max_attempts - 1

\* StaleReference leaves the getter's body: the wrapper re-raises it at the
\* last attempt and goes on otherwise (lines 30-33)
GetterStale(x) ==
    IF GetterLastAttempt
    THEN [x EXCEPT !.status = "raised", !.exc = "stale"]
    ELSE [x EXCEPT !.attempt = @ + 1]

\* One pass of the wrapper's loop around a getter: read the requested
\* card's node (lines 400, 420, 440); on StaleReference fetch the whole
\* collection again and read the node of its first card (lines 401-406).
\* Any other error, get_all_jobs' timeout included, leaves the getter and
\* its wrapper at once.
GetterAttempt ==
    /\ j.status = "running"
    /\ j.attempt < j.max_attempts
    /\ LET x == [j EXCEPT !.calls = @ + 1] IN
       \E read \in {"ok", "stale", "other"} :
          CASE read = "ok" ->
                  j' = [x EXCEPT !.status = "returned", !.value = j.own,
                                 !.fell_back = FALSE]
            [] read = "other" ->
                  j' = [x EXCEPT !.status = "raised", !.exc = "other"]
            [] read = "stale" /\ ~HandlerCatches(read) -> j' = GetterStale(x)
            [] read = "stale" /\ HandlerCatches(read) ->
                  \/ j' = [x EXCEPT !.status = "raised", !.exc = "timeout"]
                  \/ \E jobs \in Collections, again \in {"ok", "stale", "other"} :
                       LET y == [x EXCEPT !.jobs = jobs] IN
                       CASE again = "ok" ->
                               j' = [y EXCEPT !.status = "returned",
                                              !.value = FallbackCard(jobs)[j.attr],
                                              !.fell_back = TRUE]
                         [] again = "stale" ->
                               j' = GetterStale([y EXCEPT !.fallback_stale = @ + 1])
                         [] again = "other" ->
                               j' = [y EXCEPT !.status = "raised", !.exc = "other"]
    /\ UNCHANGED <<w, d, g, f, b, ver, fix, orch, mt, fetch, listing>>

InitGetter ==
    /\ GetterInit
    /\ w = WrapperIdle /\ d = DetectorIdle /\ g = GateIdle /\ f = FlowIdle
    /\ b = FacadeIdle /\ RestIdle

NextGetter == GetterAttempt

SpecGetter == InitGetter /\ [][NextGetter]_vars

(***************************************************************************)
(* test_qa_jobs_details_verification (test_qa_jobs.py 64-84) with           *)
(* verify_job_details (qa_jobs_page.py 451-479): the loop over the cards    *)
(* get_all_jobs handed over, each card read through the three getters.      *)
(***************************************************************************)
\* test_qa_jobs.py lines 73-75: the three expected_..._contains arguments
ExpectedContains ==
    [position |-> "Quality Assurance", department |-> "Quality Assurance",
     location |-> "Istanbul, Turkiye"]

\* The loop at entry (test_qa_jobs.py lines 65-69): jobs is the collection
\* get_all_jobs returned, index the place of the card under verification,
\* attr the getter verify_job_details calls next ("judge" once all three
\* have returned), position, department and location what they returned.
VerifyEntry(jobs) ==
    [jobs |-> jobs, index |-> 1, attr |-> "position",
     position |-> None, department |-> None, location |-> None,
     failed_jobs |-> {}, status |-> "running"]

VerifyInit == \E jobs \in Collections : ver = VerifyEntry(jobs)

\* qa_jobs_page.py lines 466-468: the next getter is called on the card
VerifyCallGetter ==
    /\ ver.status = "running"
    /\ ver.index <= Len(ver.jobs)
    /\ ver.attr \in Attributes
    /\ j.status = "idle"
    /\ j' = GetterEntry(ver.attr, ver.index, ver.jobs[ver.index][ver.attr])
    /\ UNCHANGED <<w, d, g, f, b, ver, fix, orch, mt, fetch, listing>>

\* The getter is left: its value goes into the local of its name, its error
\* leaves verify_job_details and the test.
VerifyGetterDone ==
    /\ ver.status = "running"
    /\ j.status \in {"returned", "raised"}
    /\ IF j.status = "raised"
       THEN ver' = [ver EXCEPT !.status = "raised"]
       ELSE ver' = [ver EXCEPT ![j.attr] = j.value,
                               !.attr = CASE j.attr = "position" -> "department"
                                          [] j.attr = "department" -> "location"
                                          [] j.attr = "location" -> "judge"]
    /\ j' = GetterIdle
    /\ UNCHANGED <<w, d, g, f, b, fix, orch, mt, fetch, listing>>

\* qa_jobs_page.py lines 470-472, 479: all three texts contain what is expected
IsValid ==
    /\ Contains(ExpectedContains.position, ver.position)
    /\ Contains(ExpectedContains.department, ver.department)
    /\ Contains(ExpectedContains.location, ver.location)

\* test_qa_jobs.py lines 78-79: note the card if it is not valid, go on to
\* the next card
VerifyJudge ==
    /\ ver.status = "running"
    /\ ver.attr = "judge"
    /\ ver' = [ver EXCEPT !.failed_jobs = IF IsValid THEN @ ELSE @ \cup {ver.index},
                          !.index = @ + 1, !.attr = "position",
                          !.position = None, !.department = None,
                          !.location = None]
    /\ UNCHANGED <<w, d, g, f, b, j, fix, orch, mt, fetch, listing>>

\* test_qa_jobs.py line 82: assert len(failed_jobs) == 0
VerifyAssert ==
    /\ ver.status = "running"
    /\ ver.index > Len(ver.jobs)
    /\ ver' = [ver EXCEPT !.status = IF ver.failed_jobs = {} THEN "passed"
                                     ELSE "failed"]
    /\ UNCHANGED <<w, d, g, f, b, j, fix, orch, mt, fetch, listing>>

InitVerify ==
    /\ VerifyInit
    /\ w = WrapperIdle /\ d = DetectorIdle /\ g = GateIdle /\ f = FlowIdle
    /\ b = FacadeIdle /\ j = GetterIdle
    /\ fix = FixtureIdle /\ orch = ScriptIdle /\ mt = MatchIdle
    /\ fetch = FetchIdle /\ listing = ListingIdle

NextVerify ==
    \/ VerifyCallGetter
    \/ GetterAttempt
    \/ VerifyGetterDone
    \/ VerifyJudge
    \/ VerifyAssert

SpecVerify == InitVerify /\ [][NextVerify]_vars

(***************************************************************************)
(* The driver fixture (conftest.py 25-79), function-scoped, over a run of  *)
(* tests: pytest runs the code before the yield as the test's setup, the   *)
(* test body only if the setup did not raise, and the code after the yield *)
(* once the body has ended, whatever its outcome.                          *)
(***************************************************************************)
MaxTests == 3

\* what is noted of one test: sessions created for it, calls of quit on
\* them, and how the test ended
TestEntry == [created |-> 0, quits |-> 0, outcome |-> None]

\* The run at entry: log holds the finished tests, test the running one.
FixtureEntry ==
    [status |-> "running", phase |-> "create", test |-> TestEntry, log |-> <<>>]

\* the running test is over: the next one begins, or the run ends
NextTest(x) ==
    LET log == Append(fix.log, x) IN
    [fix EXCEPT !.log = log, !.test = TestEntry, !.phase = "create",
                !.status = IF Len(log) >= MaxTests THEN "done" ELSE "running"]

\* conftest.py lines 52-55, 71: webdriver.Remote(...) or webdriver.Chrome(...)
\* hands over a session, or raises and the test ends in a setup error
FixtureCreate ==
    /\ fix.status = "running" /\ fix.phase = "create"
    /\ \/ fix' = [fix EXCEPT !.test.created = @ + 1, !.phase = "configure"]
       \/ fix' = NextTest([fix.test EXCEPT !.outcome = "setup_error"])
    /\ UNCHANGED <<w, d, g, f, b, j, ver, orch, mt, fetch, listing>>

\* conftest.py line 74: driver_instance.implicitly_wait(10), a command to
\* the session that answers or raises; a raise before the yield is a setup
\* error, and the code after the yield is not run
FixtureConfigure ==
    /\ fix.status = "running" /\ fix.phase = "configure"
    /\ \/ fix' = [fix EXCEPT !.phase = "body"]
       \/ fix' = NextTest([fix.test EXCEPT !.outcome = "setup_error"])
    /\ UNCHANGED <<w, d, g, f, b, j, ver, orch, mt, fetch, listing>>

\* conftest.py line 76: yield driver_instance; the test body runs and ends
FixtureBody ==
    /\ fix.status = "running" /\ fix.phase = "body"
    /\ \E outcome \in {"passed", "failed", "raised"} :
         fix' = [fix EXCEPT !.test.outcome = outcome, !.phase = "teardown"]
    /\ UNCHANGED <<w, d, g, f, b, j, ver, orch, mt, fetch, listing>>

\* conftest.py line 79: driver_instance.quit()
FixtureTeardown ==
    /\ fix.status = "running" /\ fix.phase = "teardown"
    /\ fix' = NextTest([fix.test EXCEPT !.quits = @ + 1])
    /\ UNCHANGED <<w, d, g, f, b, j, ver, orch, mt, fetch, listing>>

InitFixture ==
    /\ fix = FixtureEntry
    /\ w = WrapperIdle /\ d = DetectorIdle /\ g = GateIdle /\ f = FlowIdle
    /\ b = FacadeIdle /\ j = GetterIdle
    /\ ver = VerifyIdle /\ orch = ScriptIdle /\ mt = MatchIdle
    /\ fetch = FetchIdle /\ listing = ListingIdle

NextFixture == FixtureCreate \/ FixtureConfigure \/ FixtureBody \/ FixtureTeardown

SpecFixture == InitFixture /\ [][NextFixture]_vars

(***************************************************************************)
(* scripts/deploy_and_run.py: parse_args, deploy_with_helm,                 *)
(* load_kube_config, wait_for_pods_ready, display_cluster_info,             *)
(* wait_for_test_completion, get_test_logs, cleanup_resources, main.        *)
(* Each wait loop counts its time in seconds from its own start_time.       *)
(***************************************************************************)
\* largest --node-count tried
MaxNodeArg == 6
\* largest --wait-timeout tried, in seconds (the default, 300, scaled down)
MaxWaitTimeout == 4
\* most chrome-node pods a listing shows
MaxPods == 2

\* line 30: choices=range(1, 6)
MinNodes == 1
MaxNodes == 5
\* lines 187, 213, 228: time.sleep(2)
PollSleep == 2

\* line 30 as a bug would have it: the range's end taken as included
AcceptedInclusive(node_count) == node_count \in MinNodes..(MaxNodes + 1)

\* line 30: argparse accepts a value of choices only
Accepted(node_count) == node_count \in MinNodes..MaxNodes

\* line 119 as a bug would have it: the failed command is not noticed
DeployFailedNever(result) == FALSE

\* line 119: if result is None
DeployFailed(result) == result = None

ArgSets ==
    [node_count : 0..MaxNodeArg, cleanup : BOOLEAN, wait_timeout : 1..MaxWaitTimeout]

\* The script at entry.  ran (the phases entered, in order), commands (the
\* shell commands handed to run_command), failed (the phase that failed),
\* phase (the terminal phase seen of the test-controller pod) and cleaned
\* are kept for the properties only.
ScriptEntry(args) ==
    [args |-> args, pc |-> "parse", status |-> "running", exit_code |-> NoCount,
     now |-> 0, pod_name |-> None, phase |-> None,
     ran |-> <<>>, commands |-> <<>>, failed |-> None, cleaned |-> FALSE]

ScriptInit == \E args \in ArgSets : orch = ScriptEntry(args)

ScriptAt(pc) == orch.status = "running" /\ orch.pc = pc

\* sys.exit(code), or main's end with code 0
Exit(x, code) == [x EXCEPT !.status = "exited", !.exit_code = code]

\* sys.exit(1) after the phase x.pc failed
ExitFailed(x) == Exit([x EXCEPT !.failed = IF @ = None THEN x.pc ELSE @], 1)

Enter(x, pc) == [x EXCEPT !.pc = pc, !.ran = Append(@, pc), !.now = 0]

\* line 320: parse_args; argparse ends the process with status 2 on a
\* --node-count that is not among the choices
ScriptParse ==
    /\ ScriptAt("parse")
    /\ IF Accepted(orch.args.node_count)
       THEN orch' = Enter(orch, "deploy")
       ELSE orch' = Exit([orch EXCEPT !.failed = "parse"], 2)
    /\ UNCHANGED <<w, d, g, f, b, j, ver, fix, mt, fetch, listing>>

\* lines 96-126, 331-332: helm list, then helm upgrade or helm install with
\* chromeNode.nodeCount set from args.node_count
ScriptDeploy ==
    /\ ScriptAt("deploy")
    /\ \E existing \in BOOLEAN, result \in {None, "stdout"} :
         LET helm == [cmd |-> IF existing THEN "helm upgrade" ELSE "helm install",
                      nodeCount |-> orch.args.node_count]
             x == [orch EXCEPT !.commands =
                       @ \o << [cmd |-> "helm list", nodeCount |-> NoCount], helm >>,
                               !.failed = IF result = None THEN "deploy" ELSE @]
         IN  IF DeployFailed(result)
             THEN orch' = ExitFailed(x)
             ELSE orch' = Enter(x, "config")
    /\ UNCHANGED <<w, d, g, f, b, j, ver, fix, mt, fetch, listing>>

\* lines 129-137, 335-336
ScriptLoadConfig ==
    /\ ScriptAt("config")
    /\ \/ orch' = Enter(orch, "pods")
       \/ orch' = ExitFailed(orch)
    /\ UNCHANGED <<w, d, g, f, b, j, ver, fix, mt, fetch, listing>>

\* what one listing shows of the chrome-node pods that are not over
PodViews == {pv \in [chrome : 0..MaxPods, ready : 0..MaxPods] : pv.ready <= pv.chrome}

\* line 184 as a bug would have it: chrome_ready == len(chrome_pods) alone
AllChromeReadyOrNone(pv) == pv.ready = pv.chrome

\* line 184: len(chrome_pods) > 0 and chrome_ready == len(chrome_pods)
AllChromeReady(pv) == pv.chrome > 0 /\ pv.ready = pv.chrome

\* line 149, 205: the loop test fails once time.time() - start_time >= timeout
ScriptExpired == orch.now >= orch.args.wait_timeout

\* lines 147, 203 as a bug would have them: start_time taken anew in every
\* pass of the loop
AfterSleepFromNewStart(now, lat) == lat

\* the loop's clock after a pass that ends in time.sleep(2): start_time is
\* taken once, before the loop (lines 147, 203)
AfterSleep(now, lat) == now + lat + PollSleep

\* One pass of wait_for_pods_ready's loop (lines 149-191): list the pods;
\* return True when there are chrome nodes and all are ready, return False
\* on ApiException, otherwise sleep 2 s.
ScriptPodsPoll ==
    /\ ScriptAt("pods")
    /\ ~ScriptExpired
    /\ \E lat \in 0..MaxLatency :
         \/ orch' = ExitFailed([orch EXCEPT !.now = @ + lat])
         \/ \E pv \in PodViews :
              IF AllChromeReady(pv)
              THEN orch' = Enter(orch, "info")
              ELSE orch' = [orch EXCEPT !.now = AfterSleep(@, lat)]
    /\ UNCHANGED <<w, d, g, f, b, j, ver, fix, mt, fetch, listing>>

\* lines 193-194, 343-344
ScriptPodsTimeout ==
    /\ ScriptAt("pods")
    /\ ScriptExpired
    /\ orch' = ExitFailed(orch)
    /\ UNCHANGED <<w, d, g, f, b, j, ver, fix, mt, fetch, listing>>

\* lines 274-315, 347: display_cluster_info prints, and catches ApiException
ScriptInfo ==
    /\ ScriptAt("info")
    /\ orch' = Enter(orch, "tests")
    /\ UNCHANGED <<w, d, g, f, b, j, ver, fix, mt, fetch, listing>>

\* One pass of wait_for_test_completion's loop (lines 205-232): list the
\* test-controller pods; none, or one not over yet: sleep 2 s; Succeeded or
\* Failed: return the pod's name; ApiException: return None.
ScriptTestsPoll ==
    /\ ScriptAt("tests")
    /\ ~ScriptExpired
    /\ \E lat \in 0..MaxLatency,
          seen \in {"ApiException", "no pod", "Pending", "Running", "Succeeded", "Failed"} :
         CASE seen = "ApiException" -> orch' = ExitFailed([orch EXCEPT !.now = @ + lat])
           [] seen \in {"Succeeded", "Failed"} ->
                 orch' = Enter([orch EXCEPT !.pod_name = "test-controller",
                                            !.phase = seen], "logs")
           [] OTHER -> orch' = [orch EXCEPT !.now = AfterSleep(@, lat)]
    /\ UNCHANGED <<w, d, g, f, b, j, ver, fix, mt, fetch, listing>>

\* lines 234-235, 351-352
ScriptTestsTimeout ==
    /\ ScriptAt("tests")
    /\ ScriptExpired
    /\ orch' = ExitFailed(orch)
    /\ UNCHANGED <<w, d, g, f, b, j, ver, fix, mt, fetch, listing>>

\* lines 238-254, 355-362: get_test_logs; on failure sys.exit(1); otherwise
\* on to the cleanup if it was asked for, and to main's end if not
ScriptLogs ==
    /\ ScriptAt("logs")
    /\ \/ orch' = ExitFailed(orch)
       \/ /\ orch.args.cleanup
          /\ orch' = Enter(orch, "cleanup")
       \/ /\ ~orch.args.cleanup
          /\ orch' = Exit(orch, 0)
    /\ UNCHANGED <<w, d, g, f, b, j, ver, fix, mt, fetch, listing>>

\* lines 257-271, 359-362: helm uninstall; main drops what cleanup_resources
\* returns and ends
ScriptCleanup ==
    /\ ScriptAt("cleanup")
    /\ orch' = Exit([orch EXCEPT !.cleaned = TRUE,
                                 !.commands = Append(@, [cmd |-> "helm uninstall",
                                                         nodeCount |-> NoCount])], 0)
    /\ UNCHANGED <<w, d, g, f, b, j, ver, fix, mt, fetch, listing>>

InitScript ==
    /\ ScriptInit
    /\ w = WrapperIdle /\ d = DetectorIdle /\ g = GateIdle /\ f = FlowIdle
    /\ b = FacadeIdle /\ j = GetterIdle
    /\ ver = VerifyIdle /\ fix = FixtureIdle /\ mt = MatchIdle
    /\ fetch = FetchIdle /\ listing = ListingIdle

NextScript ==
    \/ ScriptParse
    \/ ScriptDeploy
    \/ ScriptLoadConfig
    \/ ScriptPodsPoll
    \/ ScriptPodsTimeout
    \/ ScriptInfo
    \/ ScriptTestsPoll
    \/ ScriptTestsTimeout
    \/ ScriptLogs
    \/ ScriptCleanup

SpecScript == InitScript /\ [][NextScript]_vars

(***************************************************************************)
(* The four wait loops, each on its own: the gate, the detector (with the  *)
(* max_stable_checks of line 230), and the script with wait_for_pods_ready *)
(* and wait_for_test_completion.  The process is never suspended for good: *)
(* a step that can be taken is taken.                                      *)
(***************************************************************************)
InitLoops ==
    /\ \/ GateInit /\ d = DetectorIdle /\ orch = ScriptIdle
       \/ /\ \E dep \in {None, "Quality Assurance"}, loc \in {None, "Istanbul, Turkiye"} :
                d = DetectorEntry(dep, loc, DepartmentChecks)
          /\ g = GateIdle /\ orch = ScriptIdle
       \/ ScriptInit /\ g = GateIdle /\ d = DetectorIdle
    /\ w = WrapperIdle /\ f = FlowIdle /\ b = FacadeIdle /\ j = GetterIdle
    /\ ver = VerifyIdle /\ fix = FixtureIdle /\ mt = MatchIdle
    /\ fetch = FetchIdle /\ listing = ListingIdle

NextLoops == NextPoll \/ NextScript

SpecLoops == InitLoops /\ [][NextLoops]_vars /\ WF_vars(NextLoops)

(***************************************************************************)
(* The match loop of _wait_for_jobs_stable (lines 337-356) on its own, over *)
(* one sample of cards.                                                     *)
(***************************************************************************)
\* cards as the match loop can meet them: texts equal to what is expected,
\* texts that only contain it, other texts, and nodes whose read raises
MatchCards ==
    { [department |-> "Quality Assurance", location |-> "Istanbul, Turkiye"],
      [department |-> "Quality Assurance & Automation",
       location |-> "Istanbul, Turkiye (Remote)"],
      [department |-> "Sales", location |-> "Istanbul, Turkiye"],
      [department |-> "Quality Assurance", location |-> "Ankara, Turkiye"],
      [department |-> "Quality Assurance", location |-> Raises],
      [department |-> Raises, location |-> "Istanbul, Turkiye"] }

\* The loop is entered by a detector called in criteria mode
MatchInit ==
    /\ mt = [status |-> "running", jobs |-> <<>>, matches |-> FALSE]
    /\ \E dep \in {None, "Quality Assurance"}, loc \in {None, "Istanbul, Turkiye"} :
         /\ dep # None \/ loc # None
         /\ d = DetectorEntry(dep, loc, DefaultChecks)

\* lines 318, 337-356: the sample is taken and the loop run over it
MatchSample ==
    /\ mt.status = "running"
    /\ \E jobs \in SeqsUpTo(MatchCards, MaxCards) :
         mt' = [status |-> "done", jobs |-> jobs, matches |-> MatchLoop(jobs, 1)]
    /\ UNCHANGED <<w, d, g, f, b, j, ver, fix, orch, fetch, listing>>

InitMatch ==
    /\ MatchInit
    /\ w = WrapperIdle /\ g = GateIdle /\ f = FlowIdle
    /\ b = FacadeIdle /\ j = GetterIdle
    /\ ver = VerifyIdle /\ fix = FixtureIdle /\ orch = ScriptIdle
    /\ fetch = FetchIdle /\ listing = ListingIdle

NextMatch == MatchSample

SpecMatch == InitMatch /\ [][NextMatch]_vars

(***************************************************************************)
(* get_all_jobs (qa_jobs_page.py 380-389, base_page.py 43-55) and what its *)
(* callers do with the collection it returns.                              *)
(***************************************************************************)
\* what the lookup of the job cards answers at one polling instant
DomSamples == SeqsUpTo(JobCards, MaxCards)

\* until(...) as a bug would have it: the first answer ends the wait
UntilAcceptsAny(value) == TRUE

\* qa_jobs_page.py line 388, base_page.py line 55: until(...) ends on an
\* answer that is true, and a list is true iff it is not empty
UntilAccepts(value) == Len(value) > 0

\* The callers: the stale fallback of the three getters (lines 403-406,
\* 423-426, 443-446) and the two scenarios (test_qa_jobs.py 34-35, 65-66)
FetchGetters == {"get_job_position", "get_job_department", "get_job_location"}
FetchScenarios == {"test_qa_jobs_filtering", "test_qa_jobs_details_verification"}

\* get_all_jobs at entry: wait is 1 in self.wait.until (line 388) and 2 in
\* find_elements (line 389), polls the answers the current wait rejected,
\* rejected (for the properties) whether any answer was rejected at all
FetchEntry(caller) ==
    [caller |-> caller, wait |-> 1, polls |-> 0, rejected |-> FALSE,
     status |-> "running", jobs |-> <<>>, exc |-> None, outcome |-> None]

FetchInit == \E caller \in FetchGetters \cup FetchScenarios : fetch = FetchEntry(caller)

\* One poll of the current wait: an accepted answer ends the wait (the
\* first wait goes on to find_elements, the second returns its answer), a
\* rejected one is polled again
FetchPoll ==
    /\ fetch.status = "running"
    /\ fetch.polls < MaxPolls
    /\ \E sample \in DomSamples :
         IF UntilAccepts(sample)
         THEN IF fetch.wait = 1
              THEN fetch' = [fetch EXCEPT !.wait = 2, !.polls = 0]
              ELSE fetch' = [fetch EXCEPT !.status = "returned", !.jobs = sample]
         ELSE fetch' = [fetch EXCEPT !.polls = @ + 1, !.rejected = TRUE]
    /\ UNCHANGED <<w, d, g, f, b, j, ver, fix, orch, mt, listing>>

\* The current wait runs out: TimeoutException leaves get_all_jobs
FetchTimeout ==
    /\ fetch.status = "running"
    /\ fetch.polls >= MaxPolls
    /\ fetch' = [fetch EXCEPT !.status = "raised", !.exc = "timeout"]
    /\ UNCHANGED <<w, d, g, f, b, j, ver, fix, orch, mt, listing>>

\* The caller goes on with the collection: a getter tests `if jobs:` and
\* reads the first card or returns "" (lines 404-406); a scenario asserts
\* len(jobs) > 0 (test_qa_jobs.py lines 35, 66)
FetchUse ==
    /\ fetch.status = "returned"
    /\ fetch' = [fetch EXCEPT
                   !.status = "used",
                   !.outcome = IF fetch.caller \in FetchGetters
                               THEN IF Len(fetch.jobs) > 0
                                    THEN "first_card"
                                    ELSE "empty_string"
                               ELSE IF Len(fetch.jobs) > 0
                                    THEN "assert_passed"
                                    ELSE "assert_failed"]
    /\ UNCHANGED <<w, d, g, f, b, j, ver, fix, orch, mt, listing>>

InitFetch ==
    /\ FetchInit
    /\ w = WrapperIdle /\ d = DetectorIdle /\ g = GateIdle /\ f = FlowIdle
    /\ b = FacadeIdle /\ j = GetterIdle
    /\ ver = VerifyIdle /\ fix = FixtureIdle /\ orch = ScriptIdle
    /\ mt = MatchIdle /\ listing = ListingIdle

NextFetch == FetchPoll \/ FetchTimeout \/ FetchUse

SpecFetch == InitFetch /\ [][NextFetch]_vars

(***************************************************************************)
(* wait_for_pods_ready (deploy_and_run.py 140-194) over the pods of its    *)
(* listings.                                                               *)
(***************************************************************************)
\* A pod as list_namespaced_pod shows it: its name, its phase and the
\* status of its Ready condition (None: the pod has no conditions)
Pods ==
    [name : {"selenium-chrome-node-0", "test-controller-x7", "selenium-hub-0"},
     phase : {"Pending", "Running", "Succeeded", "Failed"},
     ready : {"True", "False", None}]

PodLists == SeqsUpTo(Pods, MaxPods)

\* lines 159-161: completed and failed pods are skipped
PodSkipped(pod) == pod.phase \in {"Succeeded", "Failed"}

\* lines 163-164: the pods appended to chrome_pods
IsChromePod(pod) == ~PodSkipped(pod) /\ Contains("chrome-node", pod.name)
chrome_pods(items) == SelectSeq(items, IsChromePod)

\* lines 169-172: the chrome pods counted into chrome_ready
IsReadyPod(pod) == pod.phase = "Running" /\ pod.ready = "True"
chrome_ready(items) == Len(SelectSeq(chrome_pods(items), IsReadyPod))

\* what the loop's test of line 184 looks at
ChromeView(items) ==
    [chrome |-> Len(chrome_pods(items)), ready |-> chrome_ready(items)]

\* A listing seen from outside the loop: a chrome-node pod that is not
\* over, and a listing in which there is such a pod and each of them is
\* Running with condition Ready=True
ChromeNodeLive(pod) ==
    /\ Contains("chrome-node", pod.name)
    /\ pod.phase \notin {"Succeeded", "Failed"}
EveryChromeNodeReady(items) ==
    /\ \E i \in 1..Len(items) : ChromeNodeLive(items[i])
    /\ \A i \in 1..Len(items) :
          ChromeNodeLive(items[i]) =>
              (items[i].phase = "Running" /\ items[i].ready = "True")

\* wait_for_pods_ready at entry; node_count is the --node-count the chart
\* was deployed with.  For the properties: polls counts the listings, items
\* is the listing the loop returned True on, and passed_over says that the
\* loop went on after a listing with every live chrome-node pod ready.
ListingEntry(node_count) ==
    [node_count |-> node_count, status |-> "running", result |-> None,
     polls |-> 0, items |-> <<>>, passed_over |-> FALSE]

ListingInit == \E n \in {MinNodes, MaxNodes} : listing = ListingEntry(n)

\* One pass of the loop (lines 149-187): list the pods and return True when
\* there are chrome pods and all are ready, otherwise sleep and go on
ListingPoll ==
    /\ listing.status = "running"
    /\ listing.polls < MaxPolls
    /\ \E items \in PodLists :
         LET x == [listing EXCEPT !.polls = @ + 1]
         IN  IF AllChromeReady(ChromeView(items))
             THEN listing' = [x EXCEPT !.status = "returned", !.result = "True",
                                       !.items = items]
             ELSE listing' = [x EXCEPT !.passed_over =
                                           @ \/ EveryChromeNodeReady(items)]
    /\ UNCHANGED <<w, d, g, f, b, j, ver, fix, orch, mt, fetch>>

\* lines 189-194: ApiException from a listing, or the loop's timeout
ListingGivesUp ==
    /\ listing.status = "running"
    /\ listing' = [listing EXCEPT !.status = "returned", !.result = "False"]
    /\ UNCHANGED <<w, d, g, f, b, j, ver, fix, orch, mt, fetch>>

InitListing ==
    /\ ListingInit
    /\ w = WrapperIdle /\ d = DetectorIdle /\ g = GateIdle /\ f = FlowIdle
    /\ b = FacadeIdle /\ j = GetterIdle
    /\ ver = VerifyIdle /\ fix = FixtureIdle /\ orch = ScriptIdle
    /\ mt = MatchIdle /\ fetch = FetchIdle

NextListing == ListingPoll \/ ListingGivesUp

SpecListing == InitListing /\ [][NextListing]_vars

(***************************************************************************)
(* C1: for max_attempts = n >= 1, an operation that raises StaleReference  *)
(* exactly k < n times and then succeeds makes the wrapper return the      *)
(* operation's own result after exactly k + 1 invocations; an operation    *)
(* that always raises StaleReference is invoked exactly n times and the    *)
(* StaleReference of the n-th invocation is re-raised, no value returned.  *)
(***************************************************************************)
WrapperDone == w.status \in {"returned", "raised"}

C1_RetryThenSucceedOrReraise ==
    (WrapperDone /\ w.max_attempts >= 1) =>
        /\ (w.then = "ok" /\ w.k < w.max_attempts) =>
              /\ w.status = "returned"
              /\ w.value = w.result
              /\ w.calls = w.k + 1
        /\ (w.then = "stale") =>
              /\ w.status = "raised"
              /\ w.exc = "stale"
              /\ w.calls = w.max_attempts
              /\ w.excCall = w.max_attempts

C1_Witness ==
    /\ w.max_attempts = 3
    /\ w.k = 2
    /\ w.then = "ok"
    /\ w.status = "returned"
    /\ w.calls = 3

ReturnedTrue == d.status = "returned" /\ d.result = "True"
ReturnedFalse == d.status = "returned" /\ d.result = "False"

\* the last max_stable_checks samples exist and agree in cardinality
WindowSameCardinality ==
    /\ Len(d.hist) = d.max_stable_checks
    /\ \A i \in 1..Len(d.hist) : d.hist[i].n = d.hist[Len(d.hist)].n

(***************************************************************************)
(* C2: whenever the detector returns True with threshold N, at least N     *)
(* samples were taken and the N most recent ones all had the same          *)
(* cardinality; so True never comes before the N-th sample.  In            *)
(* no-criteria mode a window of N samples of one positive cardinality      *)
(* always ends the detector with True at its last sample (a source fixed   *)
(* from sample 1 onward returns True exactly at sample N).                 *)
(***************************************************************************)
C2_TrueNeedsStableWindow ==
    /\ ReturnedTrue => (d.samples >= d.max_stable_checks /\ WindowSameCardinality)
    /\ (/\ d.status # "idle"
        /\ NoCriteria
        /\ WindowSameCardinality
        /\ d.hist[1].n > 0) => ReturnedTrue

C2_Witness ==
    /\ NoCriteria
    /\ d.max_stable_checks = 3
    /\ ReturnedTrue
    /\ d.samples = 3
    /\ d.hist[1].n = MaxCards

(***************************************************************************)
(* C3 as stated: for a source whose cardinality differs between every two  *)
(* consecutive samples the detector never returns True, for every          *)
(* threshold N >= 1, in both modes.  It is taken here at samples that show *)
(* at least one card, so that the empty first sample of C4 plays no part.  *)
(***************************************************************************)
C3_Original_NeverTrueWhileChanging ==
    (/\ d.status # "idle"
     /\ d.max_stable_checks >= 1
     /\ d.changing
     /\ d.samples > 0
     /\ d.hist[Len(d.hist)].n > 0) => ~ReturnedTrue

(***************************************************************************)
(* C3 as amended: the same for every threshold N >= 2; such a run ends     *)
(* with False, and only once the deadline has passed.                      *)
(***************************************************************************)
C3_NeverTrueWhileChanging ==
    (d.status = "returned" /\ d.max_stable_checks >= 2 /\ d.changing) =>
        (ReturnedFalse /\ d.now >= d.timeout)

C3_Witness ==
    /\ d.max_stable_checks = 2
    /\ d.changing
    /\ d.samples >= 4
    /\ ReturnedFalse

(***************************************************************************)
(* C4: in no-criteria mode the detector returns True only when the         *)
(* consecutive-stable counter is >= the threshold and the sampled          *)
(* cardinality is > 0, for every threshold >= 1; a source that always      *)
(* shows 0 cards never yields True.                                        *)
(***************************************************************************)
C4_NoCriteriaTrueNeedsCards ==
    (NoCriteria /\ ReturnedTrue /\ d.max_stable_checks >= 1) =>
        /\ d.stable_checks >= d.max_stable_checks
        /\ d.hist[Len(d.hist)].n > 0

(***************************************************************************)
(* C5: in criteria mode every sample whose cardinality equals that of the  *)
(* sample before it adds exactly 1 to the counter, whether or not a card   *)
(* matches and also at cardinality 0; every other sample sets the counter  *)
(* to 1; and True is returned at exactly the first sample at which the     *)
(* counter is >= the threshold and a card of that sample matches.          *)
(***************************************************************************)
C5_CriteriaCounterAndExit ==
    [][ (~NoCriteria /\ d.status = "running" /\ d'.samples = d.samples + 1) =>
          LET cur == d'.hist[Len(d'.hist)]
              same == d.samples > 0 /\ d.hist[Len(d.hist)].n = cur.n
          IN  /\ d'.stable_checks = IF same THEN d.stable_checks + 1 ELSE 1
              /\ (d'.status = "returned" /\ d'.result = "True")
                    <=> (cur.m /\ d'.stable_checks >= d.max_stable_checks) ]_vars

C5_Witness ==
    /\ ~NoCriteria
    /\ d.max_stable_checks = 2
    /\ ReturnedTrue
    /\ d.stable_checks = 4
    /\ d.stable_count > 0
    /\ ~d.hist[1].m

(***************************************************************************)
(* C6 as stated: with criteria given, a True return means that each of the *)
(* last N samples had the same cardinality and contained a matching card.  *)
(***************************************************************************)
C6_Original_WindowAllMatching ==
    (~NoCriteria /\ ReturnedTrue) =>
        /\ WindowSameCardinality
        /\ \A i \in 1..Len(d.hist) : d.hist[i].m

(***************************************************************************)
(* C6 as amended: with criteria given, a True return means that each of    *)
(* the last N samples had the same cardinality and that the final sample   *)
(* contained a matching card; the earlier samples of the window need not.  *)
(***************************************************************************)
C6_WindowStableLastMatching ==
    (~NoCriteria /\ ReturnedTrue) =>
        /\ WindowSameCardinality
        /\ d.hist[Len(d.hist)].m

C6_Witness ==
    /\ ~NoCriteria
    /\ ReturnedTrue
    /\ d.max_stable_checks = 3
    /\ ~d.hist[1].m
    /\ ~d.hist[2].m
    /\ d.hist[3].m

(***************************************************************************)
(* C7: the detector ends only by returning, and what it returns is True or *)
(* False; True is returned only from a pass of the loop that began before  *)
(* the deadline, and when the stable (and matching) state is not reached   *)
(* it returns False, after the deadline.                                   *)
(***************************************************************************)
C7_ReturnsBooleanFalseOnTimeout ==
    /\ d.status \in {"running", "returned"}
    /\ d.status = "running" => d.result = None
    /\ d.status = "returned" =>
          /\ d.result \in {"True", "False"}
          /\ d.result = "True" => d.tested < d.timeout
          /\ d.result = "False" => d.now >= d.timeout

C7_Witness ==
    /\ ~NoCriteria
    /\ ReturnedFalse
    /\ d.samples >= 3
    /\ d.stable_checks >= d.max_stable_checks

(***************************************************************************)
(* C8: consumers act on the job list only after it has settled:            *)
(* click_view_role_on_first_job fetches the cards and clicks View Role,    *)
(* and the other three operations return normally, only if the preceding   *)
(* call of the detector returned True; after a False no card is fetched    *)
(* or clicked.                                                             *)
(***************************************************************************)
C8_ConsumersActOnlyWhenStable ==
    /\ (f.status # "idle" /\ (f.fetches > 0 \/ f.clicks > 0)) => f.stable = "True"
    /\ (/\ f.status = "returned"
        /\ f.op \in {"click_see_all_qa_jobs", "filter_by_location",
                     "filter_by_department"}) => f.stable = "True"

\* a reading that shows the department auto-selected: after stripping it is
\* non-empty and does not contain "All"
ShowsDepartment(r) ==
    /\ r # Raises
    /\ Strip(r) # ""
    /\ ~Contains("All", Strip(r))

(***************************************************************************)
(* C9: the gate returns True at exactly the first sample whose stripped    *)
(* text is non-empty and does not contain "All": it returns only on such a *)
(* sample, it never polls past one, and one 1-second sleep lies between    *)
(* each two samples; so for the samples "x All", "x All",                  *)
(* "Quality Assurance" it returns at the 3rd sample with two sleeps        *)
(* elapsed.  An empty text or a text containing "All" never yields True.   *)
(***************************************************************************)
C9_GateReturnsAtFirstReadySample ==
    /\ g.status = "returned" =>
          /\ g.result = "True"
          /\ ShowsDepartment(g.obs[Len(g.obs)])
          /\ g.sleeps = g.polls - 1
          /\ g.now >= g.sleeps
    /\ \A i \in 1..Len(g.obs) :
          ShowsDepartment(g.obs[i]) => (i = Len(g.obs) /\ g.status = "returned")

C9_Witness ==
    /\ g.status = "returned"
    /\ g.obs = <<"x All", "x All", "Quality Assurance">>
    /\ g.polls = 3
    /\ g.sleeps = 2
    /\ g.now = 2

(***************************************************************************)
(* C10: the read-failure counter counts consecutive failures: every read   *)
(* that succeeds sets it to 0 and every read that fails adds 1; the gate   *)
(* raises its lookup error exactly at the read that brings the counter to  *)
(* 10, and after a failed read that leaves it below 10 the gate sleeps one *)
(* second and goes on polling.                                             *)
(***************************************************************************)
C10_ConsecutiveFailureCounter ==
    [][ (g.status = "running" /\ g'.polls = g.polls + 1) =>
          LET r == g'.obs[Len(g'.obs)]
              failures == g'.consecutive_element_failures
          IN  /\ r # Raises => (failures = 0 /\ g'.error = None)
              /\ r = Raises =>
                    /\ failures = g.consecutive_element_failures + 1
                    /\ (g'.status = "raised" /\ g'.error = "lookup")
                          <=> failures = 10
                    /\ failures < 10 =>
                          /\ g'.status = "running"
                          /\ g'.sleeps = g.sleeps + 1
                          /\ g'.now >= g.now + 1 ]_vars

C10_Witness ==
    /\ g.status = "raised"
    /\ g.error = "lookup"
    /\ g.consecutive_element_failures = 10
    /\ g.polls = 12

(***************************************************************************)
(* C11: the gate never returns anything but True; when its deadline passes *)
(* without a sample that was non-empty and free of "All" it raises its     *)
(* timeout error, and the value the error reports is the (stripped) text   *)
(* of the last read of the control that succeeded, None if none did.       *)
(***************************************************************************)
C11_TimeoutRaisesWithLastText ==
    /\ g.status \in {"idle", "running", "returned", "raised"}
    /\ g.status = "returned" => g.result = "True"
    /\ (g.status = "raised" /\ g.error = "timeout") =>
          /\ g.result = None
          /\ g.now >= g.max_wait
          /\ \A i \in 1..Len(g.obs) : ~ShowsDepartment(g.obs[i])
          /\ g.reported = IF g.seen = None THEN None ELSE Strip(g.seen)

C11_Witness ==
    /\ g.status = "raised"
    /\ g.error = "timeout"
    /\ g.obs[Len(g.obs)] = Raises
    /\ g.seen = "x\nAll "
    /\ g.reported = "x\nAll"

FilterOperations == {"filter_by_location", "filter_by_department"}

(***************************************************************************)
(* C12: within a filter operation the dropdown's display control is        *)
(* clicked only after the gate has passed in the same call.                *)
(***************************************************************************)
C12_GateBeforeDisplayClick ==
    (f.op \in FilterOperations /\ \E i \in 1..Len(f.trace) : f.trace[i] = "display_clicked")
        => \E i \in 1..Len(f.trace) : f.trace[i] = "gate_passed"

(***************************************************************************)
(* C13 as stated: a poll loop whose condition never becomes true ends no   *)
(* earlier than its timeout T after entry and no later than T plus one     *)
(* poll interval of 1 second.                                              *)
(***************************************************************************)
C13_Original_EndsWithinOneInterval ==
    /\ g.status = "raised" => (g.max_wait <= g.now /\ g.now <= g.max_wait + 1)
    /\ ReturnedFalse => (d.timeout <= d.now /\ d.now <= d.timeout + 1)

(***************************************************************************)
(* C13: a poll loop whose condition never becomes true ends no earlier     *)
(* than its timeout T after entry, unless the gate gives up on             *)
(* max_element_failures consecutive failed reads; and it ends less than    *)
(* one poll interval plus one driver answer time after T, the last pass    *)
(* having begun before T.                                                  *)
(***************************************************************************)
C13_EndsWithinLastPass ==
    /\ (g.status = "raised" /\ g.error = "timeout") =>
          (g.max_wait <= g.now /\ g.now < g.max_wait + 1 + MaxLatency)
    /\ (g.status = "raised" /\ g.error = "lookup") =>
          g.consecutive_element_failures = max_element_failures
    /\ ReturnedFalse =>
          (d.timeout <= d.now /\ d.now < d.timeout + 1 + MaxLatency)

C13_Witness == ReturnedFalse /\ d.now = d.timeout + MaxLatency

\* the steps of a filter operation, in the order of lines 131-164 and 187-218
FilterOrder ==
    << "display_clicked", "panel_visible", "option_located", "offset_read",
       "scroll_set", "mousedown", "mouseup", "click" >>

InFilterOrder(e) == \E i \in 1..Len(FilterOrder) : FilterOrder[i] = e

IsPrefix(s, t) == Len(s) <= Len(t) /\ SubSeq(t, 1, Len(s)) = s

Occurrences(e) == Cardinality({i \in 1..Len(f.trace) : f.trace[i] = e})

(***************************************************************************)
(* C14: what a filter operation has done so far of display click, panel    *)
(* visible, option located, offset read, scroll set, mousedown, mouseup,   *)
(* click is always a prefix of that order: no step is skipped, repeated or *)
(* taken before an earlier one succeeded.                                  *)
(***************************************************************************)
C14_FilterStepsInOrder ==
    f.op \in FilterOperations => IsPrefix(SelectSeq(f.trace, InFilterOrder), FilterOrder)

C14_Witness ==
    /\ f.op = "filter_by_location"
    /\ f.status = "returned"
    /\ SelectSeq(f.trace, InFilterOrder) = FilterOrder

(***************************************************************************)
(* C15: a filter operation returns normally only after a job card was      *)
(* observed present and then a job card observed clickable, both after the *)
(* option's click was dispatched; a wait for either that fails raises.     *)
(***************************************************************************)
C15_ReturnNeedsCardsAfterActivation ==
    f.op \in FilterOperations =>
       /\ f.status = "returned" =>
             \E i, k, n \in 1..Len(f.trace) :
                /\ i < k /\ k < n
                /\ f.trace[i] = "click"
                /\ f.trace[k] = "cards_present"
                /\ f.trace[n] = "card_clickable"
       /\ (f.status = "raised" /\ f.exc = "driver") => Occurrences("card_clickable") = 0

C15_Witness ==
    /\ f.op = "filter_by_department"
    /\ f.status = "returned"
    /\ f.trace[Len(f.trace)] = "card_clickable"

\* the filter operation raised at the wait for the target option
RaisedAtOption ==
    /\ f.op \in FilterOperations
    /\ f.status = "raised"
    /\ Steps(f.op)[f.pc].kind = "driver"
    /\ Steps(f.op)[f.pc].events = <<"option_located">>

(***************************************************************************)
(* C16: when the target option is not found after the dropdown opened the  *)
(* filter operation raises to its caller with the display control clicked  *)
(* exactly once, no mousedown, mouseup or click dispatched, no wait for    *)
(* job cards made and the detector not run.                                *)
(***************************************************************************)
C16_OptionNotFoundIsFatal ==
    RaisedAtOption =>
       /\ f.exc = "driver"
       /\ Occurrences("display_clicked") = 1
       /\ Occurrences("panel_visible") = 1
       /\ \A e \in {"mousedown", "mouseup", "click", "cards_present", "card_clickable"} :
             Occurrences(e) = 0
       /\ f.stable = None
       /\ d.status = "idle"

C16_Witness == RaisedAtOption /\ f.op = "filter_by_department"

PageDone == b.status \in {"returned", "raised"}

\* the wait of the running or finished operation ran out of time
WaitTimedOut == b.failure = "TimeoutException"

(***************************************************************************)
(* C17: when the wait of find_element, find_elements or click times out    *)
(* the operation raises NoSuchElementException carrying the locator, and   *)
(* returns nothing.                                                        *)
(***************************************************************************)
C17_TimeoutIsTypedNotFound ==
    (b.op \in {"find_element", "find_elements", "click"} /\ WaitTimedOut) =>
        /\ b.status = "raised"
        /\ b.exc = "NoSuchElementException"
        /\ b.locator

(***************************************************************************)
(* C18: is_displayed returns False, and does not raise, when the element   *)
(* did not become visible within the timeout, and returns True only if     *)
(* the element was observed visible.                                       *)
(***************************************************************************)
C18_IsDisplayedFalseOnTimeout ==
    (b.op = "is_displayed" /\ PageDone) =>
        /\ WaitTimedOut => (b.status = "returned" /\ b.value = "False" /\ ~b.met)
        /\ (b.status = "returned" /\ b.value = "True") => b.met
        /\ b.status = "returned" => b.value \in {"True", "False"}
        /\ b.status = "raised" => ~IsDisplayedCatches(b.failure)

C18_Witness ==
    /\ b.op = "is_displayed"
    /\ b.status = "returned"
    /\ b.value = "False"
    /\ WaitTimedOut
    /\ b.polls = MaxPolls

\* the failure arose in the visibility check of the optional banner
InBannerVisibilityCheck ==
    \/ b.op = "is_displayed"
    \/ b.op = "open" /\ b.cond = "visible"

(***************************************************************************)
(* C19: apart from the visibility check of the optional banner, an         *)
(* operation in which the driver or a wait failed does not return          *)
(* normally: the failure reaches the caller as an error.                   *)
(***************************************************************************)
C19_NoFailureBecomesReturn ==
    (PageDone /\ b.failure # None /\ ~InBannerVisibilityCheck) => b.status = "raised"

(***************************************************************************)
(* C20: when the read of the requested card raises StaleReference and the  *)
(* getter returns, the value is the same attribute of the first card of    *)
(* the collection fetched again, whatever place the requested card had;    *)
(* when the read succeeds the value is the requested card's own text.      *)
(***************************************************************************)
C20_StaleFallsBackToFirstCard ==
    j.status = "returned" =>
        /\ j.fell_back =>
              /\ Len(j.jobs) >= 1
              /\ j.value = j.jobs[1][j.attr]
        /\ ~j.fell_back => j.value = j.own

C20_Witness ==
    /\ j.status = "returned"
    /\ j.fell_back
    /\ j.index = 2
    /\ Len(j.jobs) = 2
    /\ j.value = j.jobs[1][j.attr]
    /\ j.value # j.jobs[2][j.attr]
    /\ j.value # j.own

\* the card's own three texts contain what the scenario expects
OwnTextsMatch(card) ==
    \A attr \in Attributes : Contains(ExpectedContains[attr], card[attr])

(***************************************************************************)
(* C21: the verification scenario passes only if the list is non-empty and *)
(* every card of it shows, in its own position, department and location    *)
(* texts, the expected strings.                                            *)
(***************************************************************************)
C21_PassNeedsEveryCardMatching ==
    ver.status = "passed" =>
        /\ Len(ver.jobs) > 0
        /\ \A i \in 1..Len(ver.jobs) : OwnTextsMatch(ver.jobs[i])

(***************************************************************************)
(* C22: once it has navigated, HomePage.open returns without raising       *)
(* whether or not the banner became visible; the accept button is clicked  *)
(* only if the banner was observed visible and displayed, and with no      *)
(* banner visible within the timeout there is no click.                    *)
(***************************************************************************)
C22_OpenReturnsBannerOrNot ==
    (b.op = "open" /\ PageDone) =>
        /\ b.status = "raised" => b.site = "navigate"
        /\ b.clicks > 0 => b.shown
        /\ b.clicks <= 1
        /\ (WaitTimedOut /\ b.cond = "visible") => (b.status = "returned" /\ b.clicks = 0)

C22_Witness ==
    /\ b.op = "open"
    /\ b.status = "returned"
    /\ WaitTimedOut
    /\ b.cond = "visible"
    /\ b.clicks = 0

(***************************************************************************)
(* C23: each test gets at most one session, and every session that was     *)
(* created is quit exactly once by the time its test is over, whichever    *)
(* way the test ended.                                                     *)
(***************************************************************************)
C23_EverySessionQuitOnce ==
    fix.status # "idle" =>
        \A i \in 1..Len(fix.log) :
            /\ fix.log[i].created <= 1
            /\ fix.log[i].quits = fix.log[i].created

ScriptExited == orch.status = "exited"

(***************************************************************************)
(* C24: the script's exit status is non-zero whenever a phase failed or    *)
(* the test-controller pod ended in phase Failed, and zero only when the   *)
(* pod reached phase Succeeded.                                            *)
(***************************************************************************)
C24_ExitStatusReflectsFailure ==
    ScriptExited =>
        /\ orch.failed # None => orch.exit_code # 0
        /\ orch.phase = "Failed" => orch.exit_code # 0
        /\ orch.exit_code = 0 => orch.phase = "Succeeded"

\* the phase named occurs in ran exactly once
RanOnce(pc) == Cardinality({i \in 1..Len(orch.ran) : orch.ran[i] = pc}) = 1

HelmDeployCommands ==
    {i \in 1..Len(orch.commands) : orch.commands[i].cmd \in {"helm install", "helm upgrade"}}

(***************************************************************************)
(* C25: when the deploy, the loading of the kube config, the wait for the  *)
(* pods or the wait for the tests fails, the process ends with a non-zero  *)
(* status, the failed phase being the last one entered and entered once,   *)
(* with one deploy command at most.                                        *)
(***************************************************************************)
C25_FailureEndsProcess ==
    (orch.status # "idle" /\ orch.failed \in {"deploy", "config", "pods", "tests"}) =>
        /\ ScriptExited
        /\ orch.exit_code # 0
        /\ orch.ran[Len(orch.ran)] = orch.failed
        /\ \A i \in 1..Len(orch.ran) : RanOnce(orch.ran[i])
        /\ Cardinality(HelmDeployCommands) = 1
        /\ ~orch.cleaned

C25_Witness ==
    /\ ScriptExited
    /\ orch.failed = "tests"
    /\ orch.now < orch.args.wait_timeout
    /\ orch.ran = <<"deploy", "config", "pods", "info", "tests">>

(***************************************************************************)
(* C26: with --cleanup set, a process that saw the test-controller pod in  *)
(* a terminal phase has invoked cleanup_resources by the time it exits.    *)
(***************************************************************************)
C26_CleanupAfterTerminalPhase ==
    (ScriptExited /\ orch.args.cleanup /\ orch.phase \in {"Succeeded", "Failed"})
        => orch.cleaned

(***************************************************************************)
(* C27: a --node-count outside 1..5 ends the process before any command    *)
(* is run, and every helm install or upgrade carries the accepted count    *)
(* unchanged as chromeNode.nodeCount.                                      *)
(***************************************************************************)
C27_NodeCountBounded ==
    orch.status # "idle" =>
        /\ orch.args.node_count \notin 1..5 =>
              /\ orch.commands = <<>>
              /\ orch.ran = <<>>
              /\ ScriptExited => orch.exit_code # 0
        /\ \A i \in HelmDeployCommands :
              /\ orch.commands[i].nodeCount = orch.args.node_count
              /\ orch.commands[i].nodeCount \in 1..5

C27_Witness ==
    /\ ScriptExited
    /\ orch.exit_code = 0
    /\ orch.args.node_count = MaxNodes
    /\ \E i \in HelmDeployCommands : orch.commands[i].nodeCount = MaxNodes

\* no wait loop is running
LoopsOver ==
    /\ g.status # "running"
    /\ d.status # "running"
    /\ orch.status # "running"

\* a step of a running loop leaves the loop's deadline as it is
DeadlineKept ==
    /\ g.status = "running" => g'.max_wait = g.max_wait
    /\ d.status = "running" => d'.timeout = d.timeout
    /\ orch.status = "running" => orch'.args = orch.args

(***************************************************************************)
(* C28: the deadline of every wait loop is fixed at its entry and never    *)
(* changed, and every invocation of a loop eventually returns or raises    *)
(* (for the script: the process exits).                                    *)
(***************************************************************************)
C28_EveryLoopEnds == [][DeadlineKept]_vars /\ <>[]LoopsOver

C28_Witness ==
    /\ ScriptExited
    /\ orch.failed = "pods"
    /\ orch.now >= orch.args.wait_timeout

\* the card as the claim reads it: each text the criteria name can be read
\* and holds (department) or is (location) what is expected
MatchesByRule(card) ==
    /\ d.expected_department # None =>
          (card.department # Raises /\ Contains(d.expected_department, card.department))
    /\ d.expected_location # None =>
          (card.location # Raises /\ card.location = d.expected_location)

(***************************************************************************)
(* C29: in criteria mode a sample matches iff some card of it has the      *)
(* expected department as a substring of its department text (if one is    *)
(* expected) and a location text equal to the expected location (if one is *)
(* expected); a card with a failing read counts as not matching and the    *)
(* rest of the sample is still looked at.                                  *)
(***************************************************************************)
C29_CardMatchRule ==
    mt.status = "done" =>
        (mt.matches <=> \E i \in 1..Len(mt.jobs) : MatchesByRule(mt.jobs[i]))

C29_Witness ==
    /\ mt.status = "done"
    /\ Len(mt.jobs) = 2
    /\ mt.jobs[1].department = Raises
    /\ d.expected_department # None
    /\ d.expected_location # None
    /\ mt.matches

SeeAllOrder ==
    << "url_changed", "list_container_present", "scrolled_to_filter",
       "department_visible", "gate_passed" >>

InSeeAllOrder(e) == \E i \in 1..Len(SeeAllOrder) : SeeAllOrder[i] = e

\* the detector was started by the operation, or the operation is over
SeeAllDetectorStarted ==
    d.status # "idle" \/ f.stable # None \/ f.status = "returned"

\* the gate is passed in this step
SeeAllGatePassed ==
    /\ Occurrences("gate_passed") = 0
    /\ \E i \in 1..Len(f'.trace) : f'.trace[i] = "gate_passed"

(***************************************************************************)
(* C30: what click_see_all_qa_jobs has done so far of URL change observed, *)
(* list container present, scroll to the filter section, department        *)
(* control visible, gate passed is always a prefix of that order; the      *)
(* detector is started, and the operation returns, only after all five,    *)
(* the detector with max_stable_checks 6 and no criteria; and the gate is  *)
(* passed only on a reading that is, stripped, non-empty and without "All".*)
(***************************************************************************)
C30_SeeAllPhasesInOrder ==
    /\ [](f.op = "click_see_all_qa_jobs" =>
            /\ IsPrefix(SelectSeq(f.trace, InSeeAllOrder), SeeAllOrder)
            /\ SeeAllDetectorStarted =>
                  SelectSeq(f.trace, InSeeAllOrder) = SeeAllOrder
            /\ d.status # "idle" =>
                  /\ d.max_stable_checks = SeeAllChecks
                  /\ d.expected_department = None
                  /\ d.expected_location = None)
    /\ [][(f.op = "click_see_all_qa_jobs" /\ SeeAllGatePassed) =>
            /\ g.status = "returned"
            /\ Len(g.obs) > 0
            /\ ShowsDepartment(g.obs[Len(g.obs)])]_vars

C30_Witness ==
    /\ f.op = "click_see_all_qa_jobs"
    /\ f.status = "returned"
    /\ f.stable = "True"
    /\ SelectSeq(f.trace, InSeeAllOrder) = SeeAllOrder

(***************************************************************************)
(* C31: click_view_role_on_first_job fetches the card collection at most   *)
(* 3 times, once per attempt; every StaleReference before the 3rd attempt  *)
(* is followed by a 1-second sleep and the next attempt, the one of the    *)
(* 3rd attempt is re-raised (3 fetches and 2 sleeps behind it); the View   *)
(* Role click is issued at most once, on the collection of the attempt     *)
(* that returns; any other failure leaves the operation in the attempt in  *)
(* which it happens, no sleep or fetch following it.                       *)
(***************************************************************************)
C31_ViewRoleClickRetries ==
    f.op = "click_view_role_on_first_job" =>
        /\ f.attempt < ViewRoleAttempts
        /\ f.fetches <= ViewRoleAttempts
        /\ f.sleeps = f.attempt
        /\ f.clicks <= 1
        /\ f.clicks = 1 => (f.status = "returned" /\ f.fetches = f.attempt + 1)
        /\ f.status = "returned" => f.clicks = 1
        /\ (f.status = "raised" /\ f.exc = "stale") =>
              (/\ f.fetches = ViewRoleAttempts
               /\ f.sleeps = ViewRoleAttempts - 1
               /\ f.clicks = 0)
        /\ (f.status = "raised" /\ f.exc = "driver") =>
              (/\ f.fetches \in {f.attempt, f.attempt + 1}
               /\ f.clicks = 0)
        /\ (f.status = "running" /\ f.pc = Len(click_view_role_on_first_job)) =>
              f.fetches = f.attempt

C31_Witness ==
    /\ f.op = "click_view_role_on_first_job"
    /\ f.status = "raised"
    /\ f.exc = "stale"
    /\ f.fetches = ViewRoleAttempts
    /\ f.sleeps = ViewRoleAttempts - 1

(***************************************************************************)
(* C32: get_all_jobs returns only a collection with at least one card, and *)
(* leaves otherwise with its timeout; so a getter's stale fallback always  *)
(* reads the first card and never returns "", and a scenario's assertion   *)
(* len(jobs) > 0 never fails.                                              *)
(***************************************************************************)
C32_GetAllJobsNeverEmpty ==
    /\ fetch.status \in {"returned", "used"} => Len(fetch.jobs) > 0
    /\ fetch.status = "raised" => fetch.exc = "timeout"
    /\ fetch.status = "used" => fetch.outcome \in {"first_card", "assert_passed"}

C32_Witness ==
    /\ fetch.status = "used"
    /\ fetch.caller = "get_job_position"
    /\ fetch.rejected
    /\ fetch.outcome = "first_card"

\* StaleReference has left the getter and its wrapper
GetterRaisedStale == j.status = "raised" /\ j.exc = "stale"

(***************************************************************************)
(* C33: the wrapper invokes a getter again only after a fallback read that *)
(* raised StaleReference (a stale requested card alone is absorbed by the  *)
(* getter's handler), so a getter that returns after a stale requested     *)
(* card returns in the invocation in which the first card of the fetched   *)
(* collection was read; StaleReference reaches the caller only from the    *)
(* 3rd invocation, each of the 3 having ended in a stale fallback read.    *)
(***************************************************************************)
C33_StaleSurfacesOnlyFromFallback ==
    j.status # "idle" =>
        /\ j.calls <= GetterAttempts
        /\ j.attempt = j.fallback_stale - (IF GetterRaisedStale THEN 1 ELSE 0)
        /\ j.status # "running" => j.calls = j.attempt + 1
        /\ GetterRaisedStale =>
              (j.calls = GetterAttempts /\ j.fallback_stale = GetterAttempts)
        /\ (j.status = "returned" /\ j.fell_back) =>
              j.calls = j.fallback_stale + 1

C33_Witness ==
    /\ GetterRaisedStale
    /\ j.calls = GetterAttempts
    /\ j.fallback_stale = GetterAttempts

\* max_attempts as range() counts it
WrapperPasses == IF w.max_attempts > 0 THEN w.max_attempts ELSE 0

(***************************************************************************)
(* C34: the wrapper invokes the operation at most max_attempts times and   *)
(* sleeps only between two invocations; an error that is not               *)
(* StaleReference leaves the wrapper from the invocation that raised it    *)
(* (the first invocation if the operation raises it at once), no sleep or  *)
(* invocation following; when StaleReference is re-raised there were       *)
(* max_attempts invocations and max_attempts - 1 sleeps; for               *)
(* max_attempts <= 0 the wrapper returns None, the operation not invoked.  *)
(***************************************************************************)
C34_RetriesOnStaleOnly ==
    w.status # "idle" =>
        /\ w.calls <= WrapperPasses
        /\ w.sleeps = w.attempt
        /\ (WrapperDone /\ w.calls > 0) => w.sleeps = w.calls - 1
        /\ (w.status = "raised" /\ w.exc = "other") =>
              /\ w.then = "other"
              /\ w.calls = w.k + 1
              /\ w.excCall = w.calls
              /\ w.sleeps = w.k
        /\ (WrapperDone /\ w.then = "other" /\ w.k = 0 /\ w.max_attempts >= 1) =>
              (w.status = "raised" /\ w.exc = "other" /\ w.calls = 1 /\ w.sleeps = 0)
        /\ (w.status = "raised" /\ w.exc = "stale") =>
              (w.calls = w.max_attempts /\ w.sleeps = w.max_attempts - 1)
        /\ (WrapperDone /\ w.max_attempts <= 0) =>
              (w.status = "returned" /\ w.value = None /\ w.calls = 0 /\ w.sleeps = 0)

C34_Witness ==
    /\ w.status = "raised"
    /\ w.exc = "other"
    /\ w.max_attempts = 3
    /\ w.k = 1
    /\ w.calls = 2
    /\ w.sleeps = 1


====
